---- MODULE Spec2Model ----
(***************************************************************************)
(* A model of the acquisition pipeline of the download bot.                *)
(*                                                                         *)
(* Spec       the ephemeral request store (_YT_REQUESTS / _INLINE_REQUESTS *)
(*            with their cleanup, store and pop functions) and the         *)
(*            redemption handlers handle_youtube_choice and                *)
(*            handle_chosen_inline_result, run as cooperative asyncio      *)
(*            tasks: a task gives up control only at an await.             *)
(* RetrySpec  the retry loop InstagramDownloader._download_content_raw.    *)
(* ScrapeSpec the browser scrape TwitterParser.get_twitter_content, called *)
(*            by TwitterHandler.handle_post on the one parser object the   *)
(*            module-level handler owns.                                   *)
(* MergeSpec  one call of InstagramDownloader._merge_all_media with its    *)
(*            scratch directory and _cleanup_temp_directory.               *)
(* DiskSpec   concurrent acquisition jobs and the files they create in the *)
(*            one download directory: _download_via_api with               *)
(*            _download_media_file and the merge that download_content     *)
(*            starts, and download_video with _download_video_sync.        *)
(* ProgressSpec the progress callback of handle_youtube_choice: the hook   *)
(*            _progress_hook called on the download worker thread and the  *)
(*            tasks _update_progress it schedules on the event loop.       *)
(* DispatchSpec the dispatcher handle_links: which handler a message text  *)
(*            is given to.                                                 *)
(* FormatSpec the format selector _youtube_format, as yt-dlp evaluates it  *)
(*            on the encodings a video offers, and download_video with     *)
(*            the options of get_ydl_opts.                                 *)
(* ContentSpec one call of InstagramDownloader.download_content: disk      *)
(*            check, download, text extraction, merge, returned result.    *)
(* SchedSpec  the event loop and the blocking capability calls of the jobs: *)
(*            which calls run on the loop thread, which on a worker thread *)
(*            or in a subprocess, and which are bounded by a timeout.      *)
(* QualitySpec the quality choices prompt_youtube_quality and              *)
(*            handle_inline_query offer for a YouTube link.                *)
(*                                                                         *)
(* Time is counted in seconds, as time.time() does.  The two module-level  *)
(* stores run the same code on separate dictionaries and never touch each  *)
(* other; `flow` selects which of the two modules a behaviour is about.    *)
(* secrets.token_urlsafe(6) is modelled as a source of fresh tokens: the   *)
(* k-th put receives the token k, and a requester may present any token,   *)
(* also one that has not been issued yet.                                  *)
(***************************************************************************)
EXTENDS Integers, Sequences, FiniteSets, TLC

VARIABLES
    flow,       \* "yt" (handlers/youtube.py) or "inline" (handlers/inline.py)
    requests,   \* _YT_REQUESTS / _INLINE_REQUESTS: token -> [url, owner, ts]
    now,        \* the value time.time() returns
    ticks,      \* how often the clock has advanced (bounds the model)
    issued,     \* number of tokens secrets.token_urlsafe has handed out
    ledger,     \* history: token -> the entry put stored for it
    redeemed,   \* history: tokens for which a take has returned the URL
    jobs,       \* history: token -> number of download jobs started for it
    tasks,      \* the in-flight redemption handlers (asyncio tasks)
    last,       \* observation of the last operation: arguments and result
    use_api,    \* InstagramDownloader.use_api
    rpc,        \* where _download_content_raw stands: "off", "api",
                \* "instaloader", "sleep" or "done"
    attempt,    \* loop variable of _download_content_raw
    calls,      \* history: strategy calls made, as <<attempt, strategy, outcome>>
    sleeps,     \* history: asyncio.sleep calls made, as <<attempt, seconds>>
    result,     \* value returned by _download_content_raw
    driver,     \* TwitterParser.driver of the shared parser: 0 is None
    made,       \* number of browser instances webdriver.Chrome has created
    alive,      \* browser instances created and not yet quit
    scr,        \* the invocations of handle_post: position and history
    media_files,    \* argument of _merge_all_media: the kind of every item
    mpc,            \* where the merge stands: "off", "convert", "manifest",
                    \* "concat", "finally" or "done"
    item,           \* loop variable i of the conversion loop, counted from 1
    video_segments, \* items whose segment was appended, in append order
    temp_dir,       \* the scratch directory exists
    temp_files,     \* files inside the scratch directory
    manifest,       \* lines of concat_list.txt, as item numbers
    concats,        \* history: concatenation runs started
    output_file,    \* a file exists at the output path
    merged,         \* value returned: "output", "failed", "none" before
    exit_path,      \* history: the return statement taken
    outcomes,       \* history: what happened to every item visited
    list_outcome,   \* history: "ok" or "failed" once the manifest was tried
    concat_outcome, \* history: how the concatenation run ended
    sec,        \* int(time.time())
    disk,       \* the download directory: path -> [by, born]
    stamp,      \* number of files created so far (the creation order)
    djobs,      \* the acquisition jobs: position, local variables, history
    failures,    \* history: the operations that ended in failure, with the
                \* files they had created and that were still on disk then
    ptime,      \* time.time(), in tenths of a second
    throttle,   \* the nonlocals last_update, last_text, last_downloaded
    ready,      \* _update_progress tasks scheduled on the loop, in order
    edits,      \* history: edit_text calls, as <<time, text, downloaded>>
    hooks,      \* history: number of progress events the worker reported
    actor,      \* history: who took the last step, "worker" or "loop"
    inbox,      \* the message text whose handling is observed
    dsp,        \* the last call of handle_links and the history of the calls
    inl,        \* the download _send_downloaded_video_inline has started
    formats,    \* the encodings the video offers, as keys of Catalogue
    fsel,       \* the format selection: requested height and what was chosen
    dl,         \* the call of download_video: arguments, options and outcome
    dc,         \* the call of download_content: position, locals, history
    sjobs,      \* the jobs of the scheduler: kind, position, attempts
    holder,     \* the job whose blocking call occupies the event loop thread
    hung,        \* the capabilities that never respond in this behaviour
    encodings,  \* what get_youtube_resolutions yields: failure or the pairs
    offer       \* the quality choices offered: flow and the list `available`

progressVars == <<ptime, throttle, ready, edits, hooks, actor>>
dispatchVars == <<inbox, dsp, inl>>
formatVars == <<formats, fsel, dl>>
contentVars == <<dc>>
schedVars == <<sjobs, holder, hung>>
qualityVars == <<encodings, offer>>
storeVars == <<flow, requests, now, ticks, issued, ledger, redeemed, jobs, tasks, last>>
retryVars == <<use_api, rpc, attempt, calls, sleeps, result>>
scrapeVars == <<driver, made, alive, scr>>
vars == <<flow, requests, now, ticks, issued, ledger, redeemed, jobs, tasks, last,
          use_api, rpc, attempt, calls, sleeps, result,
          driver, made, alive, scr,
          media_files, mpc, item, video_segments, temp_dir, temp_files,
          manifest, concats, output_file, merged, exit_path,
          outcomes, list_outcome, concat_outcome,
          sec, disk, stamp, djobs, failures,
          ptime, throttle, ready, edits, hooks, actor,
          inbox, dsp, inl,
          formats, fsel, dl,
          dc,
          sjobs, holder, hung,
          encodings, offer>>
diskVars == <<sec, disk, stamp, djobs, failures>>
mergeVars == <<media_files, mpc, item, video_segments, temp_dir, temp_files,
               manifest, concats, output_file, merged, exit_path,
               outcomes, list_outcome, concat_outcome>>
notStoreVars == <<retryVars, scrapeVars, mergeVars, diskVars, progressVars, dispatchVars, formatVars, contentVars, schedVars, qualityVars>>
notRetryVars == <<storeVars, scrapeVars, mergeVars, diskVars, progressVars, dispatchVars, formatVars, contentVars, schedVars, qualityVars>>
notScrapeVars == <<storeVars, retryVars, mergeVars, diskVars, progressVars, dispatchVars, formatVars, contentVars, schedVars, qualityVars>>
notMergeVars == <<storeVars, retryVars, scrapeVars, diskVars, progressVars, dispatchVars, formatVars, contentVars, schedVars, qualityVars>>
notDiskVars == <<storeVars, retryVars, scrapeVars, mergeVars, progressVars, dispatchVars, formatVars, contentVars, schedVars, qualityVars>>
notProgressVars == <<storeVars, retryVars, scrapeVars, mergeVars, diskVars, dispatchVars, formatVars, contentVars, schedVars, qualityVars>>
notDispatchVars == <<storeVars, retryVars, scrapeVars, mergeVars, diskVars, progressVars, formatVars, contentVars, schedVars, qualityVars>>
notFormatVars == <<storeVars, retryVars, scrapeVars, mergeVars, diskVars, progressVars, dispatchVars, contentVars, schedVars, qualityVars>>
notContentVars == <<storeVars, retryVars, scrapeVars, mergeVars, diskVars, progressVars, dispatchVars, formatVars, schedVars, qualityVars>>
notSchedVars == <<storeVars, retryVars, scrapeVars, mergeVars, diskVars, progressVars, dispatchVars, formatVars, contentVars, qualityVars>>
notQualityVars == <<storeVars, retryVars, scrapeVars, mergeVars, diskVars, progressVars, dispatchVars, formatVars, contentVars, schedVars>>

-----------------------------------------------------------------------------
(* Bounds and input sets *)

MaxTokens == 2      \* puts per behaviour
MaxTicks == 2       \* clock advances per behaviour
MaxScrapes == 3     \* invocations of handle_post per behaviour
MaxItems == 3       \* media items handed to one merge
MaxMedia == 2       \* media items the API lists for one post
MaxEvents == 3      \* progress events yt-dlp reports during one download
MaxCalls == 3       \* calls of handle_links per behaviour

Requesters == {"A", "B"}
Tokens == 1..MaxTokens
Handlers == {"h1", "h2"}
TimeSteps == {8 * 60}     \* the clock is observed every eight minutes
\* the URL of the k-th request: every request carries a URL of its own
UrlNames == <<"u1", "u2", "u3", "u4", "u5", "u6">>
UrlOf(k) == UrlNames[k]
Urls == {UrlOf(k) : k \in Tokens}
Flows == {"yt", "inline"}

None == "none"

-----------------------------------------------------------------------------
(* The request store *)

YT_REQUEST_TTL == 15 * 60

NoData == [url |-> None, owner |-> None, ts |-> 0 - 1]

CleanupExpiredHours(entry, t) == t - entry.ts > YT_REQUEST_TTL * 60

\* the expiry test of the list comprehension in _cleanup_requests

CleanupExpired(entry, t) == t - entry.ts > YT_REQUEST_TTL

\* _cleanup_requests / _cleanup_inline_requests
CleanupRequests(s, t) ==
    [k \in {x \in DOMAIN s : ~CleanupExpired(s[x], t)} |-> s[k]]

\* _store_request / _store_inline_request: sweep, then insert under `token`
StoreRequest(s, token, url, uid, t) ==
    LET c == CleanupRequests(s, t)
    IN  [k \in DOMAIN c \cup {token} |->
            IF k = token THEN [url |-> url, owner |-> uid, ts |-> t] ELSE c[k]]

\* the value of `data` after  data = _YT_REQUESTS.pop(token, None)
PopData(s, token) == IF token \in DOMAIN s THEN s[token] ELSE NoData

PopStoreKeep(s, token) == s

\* the dictionary after  _YT_REQUESTS.pop(token, None)
PopStore(s, token) == [k \in DOMAIN s \ {token} |-> s[k]]

PopResultAnyone(data, uid) == IF data = NoData THEN None ELSE data.url

\* the value _pop_request / _pop_inline_request returns
PopResult(data, uid) ==
    IF data = NoData \/ data.owner # uid THEN None ELSE data.url

-----------------------------------------------------------------------------
(* Observations *)

\* what a caller of put / take observes, and what was true when it called
Obs(op, token, uid, ret, resp, after) ==
    [op |-> op, token |-> token, uid |-> uid, ret |-> ret, resp |-> resp,
     removed |-> DOMAIN requests \ DOMAIN after,
     again |-> token \in redeemed,
     age |-> IF token \in DOMAIN ledger THEN now - ledger[token].ts ELSE 0 - 1]

NoObs == [op |-> "init", token |-> 0, uid |-> None, ret |-> None, resp |-> None,
          removed |-> {}, again |-> FALSE, age |-> 0 - 1]

\* a step that calls neither put nor take: nothing of the store is observed
\* (`op` and `resp` name the step and the answer the requester gets)
Other(op, resp) == [NoObs EXCEPT !.op = "other"]

Idle == [pc |-> "idle", token |-> 0, form |-> None, url |-> None]

-----------------------------------------------------------------------------
(* Actions of the store *)

\* the clock advances
Tick(d) ==
    /\ ticks < MaxTicks
    /\ ticks' = ticks + 1
    /\ now' = now + d
    /\ last' = Other("tick", None)
    /\ UNCHANGED <<flow, requests, issued, ledger, redeemed, jobs, tasks>>
    /\ UNCHANGED notStoreVars

\* prompt_youtube_quality line 41 / handle_inline_query lines 96 and 145:
\* token = _store_request(url, requester)
Put(url, uid) ==
    /\ issued < MaxTokens
    /\ LET token == issued + 1
       IN  /\ requests' = StoreRequest(requests, token, url, uid, now)
           /\ issued' = token
           /\ ledger' = [k \in DOMAIN ledger \cup {token} |->
                            IF k = token THEN [url |-> url, owner |-> uid, ts |-> now]
                            ELSE ledger[k]]
           /\ last' = [Obs("put", token, None, None, None,
                               StoreRequest(requests, token, url, uid, now))
                        EXCEPT !.age = 0]
    /\ UNCHANGED <<flow, now, ticks, redeemed, jobs, tasks>>
    /\ UNCHANGED notStoreVars

-----------------------------------------------------------------------------
(* The redemption handlers.  `form` is the shape of the request:           *)
(*   "empty"     no callback data / no result id                           *)
(*   "nomsg"     callback.message is None / no inline_message_id           *)
(*   "badparts"  wrong number of ":"-separated fields                      *)
(*   "badchoice" the quality field is not a number                         *)
(*   "ok"        "ytq:<token>:mp3", "ytq:<token>:<w>x<h>" / "send:<token>",  *)
(*               "yt:<token>:<h>"                                          *)

Forms == {"empty", "nomsg", "badparts", "badchoice", "ok"}

\* the <<token, requester>> pairs a request of shape `form` is tried with: a
\* request that is answered before the take is reached reads neither
Presented(form) ==
    IF form \in {"empty", "nomsg", "badparts"}
    THEN {<<1, "A">>}
    ELSE Tokens \X Requesters

\* tasks are taken from the pool of handler slots in a fixed order
FreeSlot(h) ==
    /\ tasks[h].pc = "idle"
    /\ h = "h2" => tasks["h1"].pc # "idle"

Running(h, pc, token, form, url) ==
    [tasks EXCEPT ![h] = [pc |-> pc, token |-> token, form |-> form, url |-> url]]

\* handle_youtube_choice, from its start to its first await (lines 77-91)
HandleYoutubeChoice(h, token, uid, form) ==
    /\ flow = "yt"
    /\ FreeSlot(h)
    /\ IF form = "empty"
       THEN /\ last' = Other("return", None)
            /\ UNCHANGED <<requests, redeemed, tasks>>
       ELSE IF form = "badparts"
       THEN /\ last' = Other("return", "invalid_choice")
            /\ UNCHANGED <<requests, redeemed, tasks>>
       ELSE IF form = "nomsg"
       THEN \* url = None without calling _pop_request
            /\ last' = Other("return", "stale")
            /\ UNCHANGED <<requests, redeemed, tasks>>
       ELSE LET url == PopResult(PopData(requests, token), uid)
            IN  /\ requests' = PopStore(requests, token)
                /\ IF url = None
                   THEN /\ last' = Obs("take", token, uid, None, "stale", PopStore(requests, token))
                        /\ UNCHANGED <<redeemed, tasks>>
                   ELSE /\ last' = Obs("take", token, uid, url, None, PopStore(requests, token))
                        /\ redeemed' = redeemed \cup {token}
                        /\ tasks' = Running(h, "answering", token, form, url)
    /\ UNCHANGED <<flow, now, ticks, issued, ledger, jobs>>
    /\ UNCHANGED notStoreVars

\* handle_youtube_choice, lines 91-179: callback.answer() and edit_text have
\* returned (ok) or raised; then the choice is parsed and the download starts
YoutubeChoiceProceed(h, ok) ==
    /\ flow = "yt"
    /\ tasks[h].pc = "answering"
    /\ IF ~ok
       THEN /\ tasks' = [tasks EXCEPT ![h] = Idle]
            /\ last' = Other("step", None)
            /\ UNCHANGED jobs
       ELSE IF tasks[h].form = "badchoice"
       THEN /\ tasks' = [tasks EXCEPT ![h] = Idle]
            /\ last' = Other("step", "bad_quality")
            /\ UNCHANGED jobs
       ELSE /\ tasks' = [tasks EXCEPT ![h].pc = "downloading"]
            /\ jobs' = [jobs EXCEPT ![tasks[h].token] = @ + 1]
            /\ last' = Other("step", None)
    /\ UNCHANGED <<flow, requests, now, ticks, issued, ledger, redeemed>>
    /\ UNCHANGED notStoreVars

\* handle_chosen_inline_result (lines 158-186) up to the first await of
\* _send_downloaded_video_inline (lines 195-206)
HandleChosenInlineResult(h, token, uid, form) ==
    /\ flow = "inline"
    /\ FreeSlot(h)
    /\ IF form \in {"empty", "nomsg", "badparts", "badchoice"}
       THEN /\ last' = Other("return", None)
            /\ UNCHANGED <<requests, redeemed, tasks, jobs>>
       ELSE LET url == PopResult(PopData(requests, token), uid)
            IN  /\ requests' = PopStore(requests, token)
                /\ IF url = None
                   THEN /\ last' = Obs("take", token, uid, None, None, PopStore(requests, token))
                        /\ UNCHANGED <<redeemed, tasks, jobs>>
                   ELSE /\ last' = Obs("take", token, uid, url, None, PopStore(requests, token))
                        /\ redeemed' = redeemed \cup {token}
                        /\ tasks' = Running(h, "downloading", token, form, url)
                        /\ jobs' = [jobs EXCEPT ![token] = @ + 1]
    /\ UNCHANGED <<flow, now, ticks, issued, ledger>>
    /\ UNCHANGED notStoreVars

\* the download of a handler ends (delivered or failed) and its task finishes:
\* youtube.py lines 151-195, inline.py lines 206-236
DownloadDone(h) ==
    /\ tasks[h].pc = "downloading"
    /\ tasks' = [tasks EXCEPT ![h] = Idle]
    /\ last' = Other("step", "delivered")
    /\ UNCHANGED <<flow, requests, now, ticks, issued, ledger, redeemed, jobs>>
    /\ UNCHANGED notStoreVars

-----------------------------------------------------------------------------
(* The retry loop InstagramDownloader._download_content_raw.  A strategy    *)
(* call answers "media" (a non-empty file list), one of the failures below  *)
(* (an empty file list with that status), or "raised" (an exception leaves  *)
(* the call).                                                              *)

MAX_RETRIES == 2

NonRetryable == {"unsupported", "not_found", "rate_limited"}
Retryable == {"timeout", "unavailable"}
Outcomes == {"media", "raised"} \cup NonRetryable \cup Retryable

RECURSIVE Pow2(_)
Pow2(n) == IF n = 0 THEN 1 ELSE 2 * Pow2(n - 1)

BackoffLinear(a) == 2 * a

\* the argument of asyncio.sleep: 2 ** attempt
Backoff(a) == Pow2(a)

LastAttemptEarly(a) == a = MAX_RETRIES - 2

\* attempt == MAX_RETRIES - 1
LastAttempt(a) == a = MAX_RETRIES - 1

\* config.py: the API strategy is switched on
USE_INSTAGRAM_API == TRUE

FirstStrategyScraper == "instaloader"

\* the strategy an attempt begins with (lines 372-377)
FirstStrategy == IF use_api THEN "api" ELSE "instaloader"

\* the attempt has ended with an empty result or an exception (lines 382-391)
AttemptFailed(status) ==
    IF LastAttempt(attempt)
    THEN /\ rpc' = "done"
         /\ result' = status
         /\ UNCHANGED <<attempt, sleeps>>
    ELSE /\ rpc' = "sleep"
         /\ UNCHANGED <<attempt, sleeps, result>>

\* download_content calls _download_content_raw: the loop is entered
DownloadContentRaw ==
    /\ rpc = "off"
    /\ rpc' = IF MAX_RETRIES > 0 THEN FirstStrategy ELSE "done"
    /\ result' = IF MAX_RETRIES > 0 THEN result ELSE "unknown_error"
    /\ attempt' = 0
    /\ UNCHANGED <<use_api, calls, sleeps>>
    /\ UNCHANGED notRetryVars

\* result = await self._download_via_api(url), line 373
DownloadViaApi(o) ==
    /\ rpc = "api"
    /\ calls' = Append(calls, <<attempt, "api", o>>)
    /\ IF o = "media"
       THEN /\ rpc' = "done"
            /\ result' = "media"
            /\ UNCHANGED <<attempt, sleeps>>
       ELSE IF o = "raised"
       THEN AttemptFailed("failed_after_attempts")
       ELSE \* not result[0]: fall back to the scraper, lines 374-375
            /\ rpc' = "instaloader"
            /\ UNCHANGED <<attempt, sleeps, result>>
    /\ UNCHANGED use_api
    /\ UNCHANGED notRetryVars

\* result = await self._download_via_instaloader(url), lines 375 and 377
DownloadViaInstaloader(o) ==
    /\ rpc = "instaloader"
    /\ calls' = Append(calls, <<attempt, "instaloader", o>>)
    /\ IF o = "media"
       THEN /\ rpc' = "done"
            /\ result' = "media"
            /\ UNCHANGED <<attempt, sleeps>>
       ELSE IF o = "raised"
       THEN AttemptFailed("failed_after_attempts")
       ELSE AttemptFailed(o)
    /\ UNCHANGED use_api
    /\ UNCHANGED notRetryVars

\* await asyncio.sleep(2 ** attempt), lines 385 and 391, and the next
\* iteration of the for loop
BackoffSleep ==
    /\ rpc = "sleep"
    /\ sleeps' = Append(sleeps, <<attempt, Backoff(attempt)>>)
    /\ attempt' = attempt + 1
    /\ IF attempt + 1 < MAX_RETRIES
       THEN rpc' = FirstStrategy /\ UNCHANGED result
       ELSE rpc' = "done" /\ result' = "unknown_error"
    /\ UNCHANGED <<use_api, calls>>
    /\ UNCHANGED notRetryVars

-----------------------------------------------------------------------------

(* The browser scrape.  twitter_handler is created once (handlers/twitter.py *)
(* line 82) and owns one TwitterParser, so every invocation of handle_post  *)
(* reads and writes the same attribute parser.driver.  A browser instance   *)
(* is named by the order of its creation.  get_twitter_content gives up     *)
(* control once, at await asyncio.sleep(2); init_driver and close_driver    *)
(* contain no await and run without interruption.                           *)

Scrapes == 1..MaxScrapes

NoScrape == [pc |-> "idle", own |-> 0, used |-> {}, quit |-> {},
             inits |-> 0, naps |-> 0, initFailed |-> FALSE, reply |-> None]

\* close_driver: quit the instance self.driver refers to, then forget it
CloseDriver(j, rec) ==
    /\ alive' = alive \ {driver}
    /\ driver' = 0
    /\ scr' = [scr EXCEPT ![j] =
                  [rec EXCEPT !.quit = IF driver = 0 THEN @ ELSE @ \cup {driver}]]

\* handle_post calls get_twitter_content, which runs up to its first await.
\* init is the outcome of init_driver, load the outcome of driver.get, the
\* wait for the article and the scroll.
HandlePost(j, init, load) ==
    /\ scr[j].pc = "idle"
    /\ \A k \in Scrapes : k < j => scr[k].pc # "idle"
    /\ IF ~init
       THEN \* init_driver returned False: get_twitter_content returns None,
            \* handle_post raises ValueError and answers with the error
            /\ scr' = [scr EXCEPT ![j] = [@ EXCEPT !.pc = "done", !.inits = 1,
                                             !.initFailed = TRUE,
                                             !.reply = "error"]]
            /\ UNCHANGED <<driver, made, alive>>
       ELSE /\ made' = made + 1
            /\ IF load
               THEN /\ driver' = made + 1
                    /\ alive' = alive \cup {made + 1}
                    /\ scr' = [scr EXCEPT ![j] =
                                  [@ EXCEPT !.pc = "sleeping", !.inits = 1,
                                            !.own = made + 1,
                                            !.used = {made + 1}]]
               ELSE \* the page did not load: except, then finally close_driver
                    /\ driver' = 0
                    /\ alive' = alive
                    /\ scr' = [scr EXCEPT ![j] =
                                  [@ EXCEPT !.pc = "done", !.inits = 1,
                                            !.own = made + 1,
                                            !.used = {made + 1},
                                            !.quit = {made + 1},
                                            !.reply = "error"]]
    /\ UNCHANGED notScrapeVars

\* asyncio.sleep(2) is over: _extract_text and _extract_media read
\* self.driver (an AttributeError on None is caught inside them), the
\* content is returned and finally close_driver runs
ScrapeResume(j) ==
    /\ scr[j].pc = "sleeping"
    /\ CloseDriver(j, [scr[j] EXCEPT !.pc = "done",
                                     !.used = IF driver = 0 THEN @
                                              ELSE @ \cup {driver},
                                     !.reply = "content"])
    /\ UNCHANGED made
    /\ UNCHANGED notScrapeVars

ScrapeIdle ==
    /\ driver = 0
    /\ made = 0
    /\ alive = {}
    /\ scr = [j \in Scrapes |-> NoScrape]

-----------------------------------------------------------------------------

(* The merge.  An input item is a photo (.jpg .jpeg .png .webp), a video    *)
(* (.mp4 .mov), a file of another extension, or a path at which no file     *)
(* exists.  The scratch directory holds segment i for item i and the        *)
(* manifest; ffmpeg and the file system answer with the outcomes below.     *)

Kinds == {"photo", "video", "other", "missing"}
Convertible == {"photo", "video"}
\* returncode 0 and the segment exists / returncode 0 without a segment /
\* returncode not 0 / returncode not 0 with a partial segment left /
\* create_subprocess_exec raised
ConvertOutcomes == {"ok", "nofile", "error", "partial", "raised"}
\* returncode 0 and a non-empty output / returncode not 0 / returncode 0
\* without output / an empty output / an exception before the run / a
\* returncode not 0 with an output whose os.remove of line 217 raises
ConcatOutcomes == {"ok", "nonzero", "nonzero_partial", "missing", "empty", "raised",
                   "remove_raised"}
CleanupOutcomes == {"removed", "oserror"}

Segment(i) == <<"segment", i>>
ListFile == <<"concat_list", 0>>

RECURSIVE SeqsUpTo(_, _)
SeqsUpTo(S, n) ==
    IF n = 0 THEN {<<>>}
    ELSE LET shorter == SeqsUpTo(S, n - 1)
         IN  shorter \cup {Append(q, x) : q \in {r \in shorter : Len(r) = n - 1}, x \in S}

\* return from inside the try block: the finally clause is next
MergeReturn(value, path) ==
    /\ mpc' = "finally"
    /\ merged' = value
    /\ exit_path' = path

\* lines 121-128: no input, or the scratch directory is created
MergeStart ==
    /\ mpc = "off"
    /\ IF media_files = <<>>
       THEN /\ mpc' = "done"
            /\ merged' = "failed"
            /\ exit_path' = "no_input"
            /\ UNCHANGED temp_dir
       ELSE /\ mpc' = "convert"
            /\ temp_dir' = TRUE
            /\ UNCHANGED <<merged, exit_path>>
    /\ UNCHANGED <<media_files, item, video_segments, temp_files, manifest,
                   concats, output_file, outcomes, list_outcome, concat_outcome>>
    /\ UNCHANGED notMergeVars

AppendAlways(o) == TRUE

\* process.returncode == 0 and os.path.exists(segment_path), line 168
AppendSegment(o) == o = "ok"

AddSegmentFront(segs, i) == <<i>> \o segs

\* video_segments.append(segment_path), line 169
AddSegment(segs, i) == Append(segs, i)

\* lines 133-173: one iteration of the conversion loop; ffmpeg runs, with
\* outcome o, only for an existing photo or video
ConvertItem(o) ==
    /\ mpc = "convert"
    /\ item <= Len(media_files)
    /\ item' = item + 1
    /\ IF media_files[item] \notin Convertible
       THEN /\ o = "ok"
            /\ outcomes' = Append(outcomes, "skipped")
            /\ UNCHANGED <<video_segments, temp_files>>
       ELSE /\ outcomes' = Append(outcomes, o)
            /\ video_segments' = IF AppendSegment(o)
                                 THEN AddSegment(video_segments, item)
                                 ELSE video_segments
            /\ temp_files' = IF o \in {"ok", "partial"}
                             THEN temp_files \cup {Segment(item)}
                             ELSE temp_files
    /\ UNCHANGED <<media_files, mpc, temp_dir, manifest, concats, output_file,
                   merged, exit_path, list_outcome, concat_outcome>>
    /\ UNCHANGED notMergeVars

FewerSegments(segs, n) == Len(segs) < n

\* not video_segments, line 175
NoSegments(segs, n) == segs = <<>>

\* lines 175-188: after the loop, the zero-segment check and the manifest
WriteManifest(ok) ==
    /\ mpc = "convert"
    /\ item > Len(media_files)
    /\ IF NoSegments(video_segments, Len(media_files))
       THEN /\ ok
            /\ MergeReturn("failed", "zero_segments")
            /\ UNCHANGED <<temp_files, manifest, list_outcome>>
       ELSE IF ok
       THEN /\ manifest' = video_segments
            /\ temp_files' = temp_files \cup {ListFile}
            /\ list_outcome' = "ok"
            /\ mpc' = "concat"
            /\ UNCHANGED <<merged, exit_path>>
       ELSE /\ MergeReturn("failed", "manifest_failure")
            /\ list_outcome' = "failed"
            /\ UNCHANGED <<temp_files, manifest>>
    /\ UNCHANGED <<media_files, item, video_segments, temp_dir, concats,
                   output_file, outcomes, concat_outcome>>
    /\ UNCHANGED notMergeVars

\* the negation of line 214: returncode 0, the output exists, its size is not 0
ConcatOk(o) == o = "ok"

\* lines 191-223: the concatenation run and the check of its result
Concat(o) ==
    /\ mpc = "concat"
    /\ concats' = concats + 1
    /\ concat_outcome' = o
    /\ IF ConcatOk(o)
       THEN /\ output_file' = TRUE
            /\ MergeReturn("output", "success")
       ELSE IF o = "raised"
       THEN /\ output_file' = output_file
            /\ MergeReturn("failed", "exception")
       ELSE IF o = "remove_raised"
       THEN \* the except clause of lines 221-223 returns None
            /\ output_file' = TRUE
            /\ MergeReturn("failed", "exception")
       ELSE \* os.remove(output_file) if it exists, lines 216-217
            /\ output_file' = FALSE
            /\ MergeReturn("failed", "concat_failure")
    /\ UNCHANGED <<media_files, item, video_segments, temp_dir, temp_files,
                   manifest, outcomes, list_outcome>>
    /\ UNCHANGED notMergeVars

\* lines 229-232 and _cleanup_temp_directory: every removal is attempted, an
\* OSError of os.remove or os.rmdir is logged and nothing else happens
Cleanup(o) ==
    /\ mpc = "finally"
    /\ mpc' = "done"
    /\ IF o = "removed"
       THEN temp_files' = {} /\ temp_dir' = FALSE
       ELSE UNCHANGED <<temp_files, temp_dir>>
    /\ UNCHANGED <<media_files, item, video_segments, manifest, concats,
                   output_file, merged, exit_path, outcomes, list_outcome,
                   concat_outcome>>
    /\ UNCHANGED notMergeVars

MergeIdle ==
    /\ media_files = <<>>
    /\ mpc = "off"
    /\ item = 1
    /\ video_segments = <<>>
    /\ temp_dir = FALSE
    /\ temp_files = {}
    /\ manifest = <<>>
    /\ concats = 0
    /\ output_file = FALSE
    /\ merged = None
    /\ exit_path = None
    /\ outcomes = <<>>
    /\ list_outcome = None
    /\ concat_outcome = None

-----------------------------------------------------------------------------

(* The download directory.  A path is <<family, a, b, extension>>:          *)
(*   <<"insta", s, n, e>>   downloads/insta_<type>_<s>_<n>.<e>              *)
(*   <<"temp", s, 0, "dir">>     downloads/temp_<s>                          *)
(*   <<"merged", s, 0, "mp4">>   downloads/merged_<s>.mp4                    *)
(*   <<"video", t, 0, e>>   downloads/<title t>.<e>                         *)
(* where s is a value of int(time.time()).  All posts are of one content    *)
(* type and all their items are videos.  A job is one call of               *)
(* download_content (kind "insta") or of download_video (kind "video");     *)
(* _download_video_sync runs on a worker thread, so other jobs run between  *)
(* its steps as well.                                                       *)

DJobs == {"j1", "j2"}
Seconds == {0, 1}       \* the values int(time.time()) takes while the jobs run
Titles == {1, 2}
NoPath == <<"none", 0, 0, "none">>
InstaPath(s, n, e) == <<"insta", s, n, e>>
TempPath(s) == <<"temp", s, 0, "dir">>
MergedPath(s) == <<"merged", s, 0, "mp4">>
VideoPath(t, e) == <<"video", t, 0, e>>
\* exts = ('.mp4', '.mkv', '.webm'), line 192
ScanExts == {"mp4", "mkv", "webm"}

NoJob == [pc |-> "idle", kind |-> None, title |-> 0, fetched |-> 0,
          files |-> <<>>, wrote |-> {}, t0 |-> 0, ret |-> NoPath,
          scanned |-> FALSE, newest |-> NoPath, among |-> {},
          outcome |-> None]

InFlight(j) == djobs[j].pc \notin {"idle", "done"}

\* the directory after job j has created or overwritten path p
Written(d, p, j) ==
    [q \in DOMAIN d \cup {p} |-> IF q = p THEN [by |-> j, born |-> stamp + 1]
                                 ELSE d[q]]
\* os.makedirs(p, exist_ok=True)
MadeDir(d, p, j) == IF p \in DOMAIN d THEN d ELSE Written(d, p, j)
Removed(d, P) == [q \in DOMAIN d \ P |-> d[q]]

\* the clock reaches the next second
ClockTick ==
    /\ sec + 1 \in Seconds
    /\ sec' = sec + 1
    /\ UNCHANGED <<disk, stamp, djobs, failures>>
    /\ UNCHANGED notDiskVars

\* a request arrives and its job starts: handle_instagram calls
\* download_content, or a video handler calls download_video
StartJob(j, kind, title) ==
    /\ djobs[j].pc = "idle"
    /\ j = "j2" => djobs["j1"].pc # "idle"
    /\ kind = "insta" => title = 0
    /\ kind = "video" => title \in Titles
    /\ djobs' = [djobs EXCEPT ![j] =
                    [@ EXCEPT !.pc = IF kind = "insta" THEN "api" ELSE "ytdlp",
                              !.kind = kind, !.title = title,
                              !.among = {k \in DJobs : InFlight(k)}]]
    /\ UNCHANGED <<sec, disk, stamp, failures>>
    /\ UNCHANGED notDiskVars

\* _download_via_api, lines 429-444: the next item of the post is fetched by
\* _download_media_file.  o: "ok", "refused" (status not 200, nothing is
\* written) or "broken" (the transfer fails after the file was opened)
DownloadMediaFile(j, o) ==
    /\ djobs[j].pc = "api"
    /\ djobs[j].fetched < MaxMedia
    /\ LET p == InstaPath(sec, Len(djobs[j].files), "mp4") IN
       IF o = "refused"
       THEN /\ djobs' = [djobs EXCEPT ![j].fetched = @ + 1]
            /\ failures' = failures \cup
                   {[job |-> j, op |-> "_download_media_file", left |-> {}]}
            /\ UNCHANGED <<disk, stamp>>
       ELSE /\ disk' = Written(disk, p, j)
            /\ stamp' = stamp + 1
            /\ djobs' = [djobs EXCEPT ![j] =
                   [@ EXCEPT !.fetched = @ + 1,
                             !.wrote = @ \cup {p},
                             !.files = IF o = "ok" THEN Append(@, p) ELSE @]]
            /\ failures' = IF o = "ok" THEN failures
                           ELSE failures \cup
                   {[job |-> j, op |-> "_download_media_file", left |-> {p}]}
    /\ UNCHANGED sec
    /\ UNCHANGED notDiskVars

\* _download_via_api returns (lines 446-448) and download_content goes on
\* (lines 81-98): without media it returns the failure, with more than one
\* file it starts the merge
ApiReturn(j) ==
    /\ djobs[j].pc = "api"
    /\ djobs[j].fetched > 0
    /\ IF djobs[j].files = <<>>
       THEN /\ djobs' = [djobs EXCEPT ![j] =
                   [@ EXCEPT !.pc = "done", !.outcome = "failure"]]
            /\ failures' = failures \cup
                   {[job |-> j, op |-> "_download_via_api",
                     left |-> djobs[j].wrote \cap DOMAIN disk]}
            /\ UNCHANGED <<disk, stamp>>
       ELSE IF Len(djobs[j].files) > 1
       THEN \* _merge_all_media, lines 125-128
            /\ disk' = MadeDir(disk, TempPath(sec), j)
            /\ stamp' = IF TempPath(sec) \in DOMAIN disk THEN stamp ELSE stamp + 1
            /\ djobs' = [djobs EXCEPT ![j] =
                   [@ EXCEPT !.pc = "merge", !.t0 = sec,
                             !.wrote = @ \cup {TempPath(sec)}]]
            /\ UNCHANGED failures
       ELSE /\ djobs' = [djobs EXCEPT ![j] =
                   [@ EXCEPT !.pc = "done", !.outcome = "success",
                             !.ret = djobs[j].files[1]]]
            /\ UNCHANGED <<disk, stamp, failures>>
    /\ UNCHANGED sec
    /\ UNCHANGED notDiskVars

\* the merge ends: the output is written if it succeeded, the scratch
\* directory is removed, and after a success download_content removes the
\* inputs (lines 92-95)
MergeEnd(j, ok) ==
    /\ djobs[j].pc = "merge"
    /\ LET out == MergedPath(djobs[j].t0)
           tmp == TempPath(djobs[j].t0)
           inputs == {djobs[j].files[i] : i \in DOMAIN djobs[j].files}
       IN  IF ok
           THEN /\ disk' = Removed(Written(disk, out, j), {tmp} \cup inputs)
                /\ stamp' = stamp + 1
                /\ djobs' = [djobs EXCEPT ![j] =
                       [@ EXCEPT !.pc = "done", !.outcome = "success",
                                 !.wrote = @ \cup {out}, !.ret = out]]
           ELSE /\ disk' = Removed(disk, {tmp})
                /\ stamp' = stamp
                /\ djobs' = [djobs EXCEPT ![j] =
                       [@ EXCEPT !.pc = "done", !.outcome = "success",
                                 !.ret = djobs[j].files[1]]]
    /\ UNCHANGED <<sec, failures>>
    /\ UNCHANGED notDiskVars

\* ydl.extract_info(url, download=True), line 183.  o: "expected" (the file
\* is where prepare_filename says), "renamed" (it has another extension),
\* "nothing" (success without a file) or "failed" (DownloadError after a
\* part file was written; download_video raises ValueError, lines 171-173)
YtDlpRun(j, o) ==
    /\ djobs[j].pc = "ytdlp"
    /\ LET t == djobs[j].title
           p == IF o = "expected" THEN VideoPath(t, "mp4")
                ELSE IF o = "renamed" THEN VideoPath(t, "mkv")
                ELSE VideoPath(t, "part")
       IN  IF o = "nothing"
           THEN /\ djobs' = [djobs EXCEPT ![j].pc = "verify"]
                /\ UNCHANGED <<disk, stamp, failures>>
           ELSE /\ disk' = Written(disk, p, j)
                /\ stamp' = stamp + 1
                /\ IF o = "failed"
                   THEN /\ djobs' = [djobs EXCEPT ![j] =
                               [@ EXCEPT !.pc = "done", !.outcome = "failure",
                                         !.wrote = @ \cup {p}]]
                        /\ failures' = failures \cup
                               {[job |-> j, op |-> "download_video", left |-> {p}]}
                   ELSE /\ djobs' = [djobs EXCEPT ![j] =
                               [@ EXCEPT !.pc = "verify", !.wrote = @ \cup {p}]]
                        /\ UNCHANGED failures
    /\ UNCHANGED sec
    /\ UNCHANGED notDiskVars

\* files = [f for f in os.listdir('downloads') if f.endswith(exts)]
Matching(d) == {p \in DOMAIN d : p[4] \in ScanExts}
Newest(d, P) == CHOOSE p \in P : \A q \in P : d[q].born <= d[p].born

\* lines 184-200: the file at the expected path, or files[0] of the scan,
\* where os.listdir lists the directory in arbitrary order
VerifyArtifact(j, pick) ==
    /\ djobs[j].pc = "verify"
    /\ LET expected == VideoPath(djobs[j].title, "mp4") IN
       IF expected \in DOMAIN disk
       THEN /\ pick = expected
            /\ djobs' = [djobs EXCEPT ![j] =
                   [@ EXCEPT !.pc = "done", !.outcome = "success",
                             !.ret = expected]]
            /\ UNCHANGED failures
       ELSE IF Matching(disk) = {}
       THEN /\ pick = NoPath
            /\ djobs' = [djobs EXCEPT ![j] =
                   [@ EXCEPT !.pc = "done", !.outcome = "artifact_missing",
                             !.scanned = TRUE]]
            /\ failures' = failures \cup
                   {[job |-> j, op |-> "download_video",
                     left |-> djobs[j].wrote \cap DOMAIN disk]}
       ELSE /\ pick \in Matching(disk)
            /\ djobs' = [djobs EXCEPT ![j] =
                   [@ EXCEPT !.pc = "done", !.outcome = "success",
                             !.ret = pick, !.scanned = TRUE,
                             !.newest = Newest(disk, Matching(disk))]]
            /\ UNCHANGED failures
    /\ UNCHANGED <<sec, disk, stamp>>
    /\ UNCHANGED notDiskVars

DiskIdle ==
    /\ sec = 0
    /\ disk = [p \in {} |-> [by |-> "j1", born |-> 0]]
    /\ stamp = 0
    /\ djobs = [j \in DJobs |-> NoJob]
    /\ failures = {}

AllPaths ==
    {InstaPath(s, n, "mp4") : s \in Seconds, n \in 0..MaxMedia}
    \cup {VideoPath(t, e) : t \in Titles, e \in {"mp4", "mkv"}}
    \cup {MergedPath(s) : s \in Seconds}
    \cup {NoPath}

-----------------------------------------------------------------------------
(* The progress callback.  yt-dlp calls _progress_hook on the thread that   *)
(* asyncio.to_thread gave to _download_video_sync.  The hook builds the     *)
(* text and hands the coroutine _update_progress(text, downloaded) to the   *)
(* loop with call_soon_threadsafe(asyncio.create_task, ...); the loop runs  *)
(* the tasks in the order they were handed over.  A task runs from its      *)
(* start to await callback.message.edit_text without giving up control.     *)
(* Time is counted in tenths of a second here.                              *)

\* now - last_update < 0.3
MIN_INTERVAL == 3
Instants == 10..16          \* the clock readings during the download
ProgressTexts == {"p1", "p2"}
FinishedText == "done"
NoThrottle == [last_update |-> 0, last_text |-> "", last_downloaded |-> 0]

SuppressedByTimeOnly(th, t, text, downloaded) == t - th.last_update < MIN_INTERVAL

\* the test of line 115
Suppressed(th, t, text, downloaded) ==
    \/ t - th.last_update < MIN_INTERVAL
    \/ (text = th.last_text /\ downloaded = th.last_downloaded)

HookStateDirect(th, t, text, downloaded) ==
    [last_update |-> t, last_text |-> text, last_downloaded |-> downloaded]

\* the nonlocals after _progress_hook has run: it does not touch them
HookState(th, t, text, downloaded) == th

\* the clock moves on
ProgressTick(d) ==
    /\ ptime + d \in Instants
    /\ ptime' = ptime + d
    /\ actor' = "clock"
    /\ UNCHANGED <<throttle, ready, edits, hooks>>
    /\ UNCHANGED notProgressVars

\* _progress_hook(progress), on the worker thread.  status is "downloading"
\* (text and downloaded are computed from the event), "finished", or any
\* other status, for which the hook does nothing
ProgressHook(status, text, downloaded) ==
    /\ hooks < MaxEvents
    /\ hooks' = hooks + 1
    /\ actor' = "worker"
    /\ IF status = "downloading"
       THEN /\ ready' = Append(ready, <<text, downloaded>>)
            /\ throttle' = HookState(throttle, ptime, text, downloaded)
       ELSE IF status = "finished"
       THEN /\ text = FinishedText /\ downloaded = 0
            /\ ready' = Append(ready, <<FinishedText, 0>>)
            /\ throttle' = HookState(throttle, ptime, FinishedText, 0)
       ELSE /\ text = FinishedText /\ downloaded = 0
            /\ UNCHANGED <<ready, throttle>>
    /\ UNCHANGED <<ptime, edits>>
    /\ UNCHANGED notProgressVars

\* the loop runs the next scheduled _update_progress task, lines 112-123
UpdateProgress ==
    /\ ready # <<>>
    /\ ready' = Tail(ready)
    /\ actor' = "loop"
    /\ LET text == Head(ready)[1]
           downloaded == Head(ready)[2]
       IN  IF Suppressed(throttle, ptime, text, downloaded)
           THEN UNCHANGED <<throttle, edits>>
           ELSE /\ throttle' = [last_update |-> ptime, last_text |-> text,
                                last_downloaded |-> downloaded]
                /\ edits' = Append(edits, <<ptime, text, downloaded>>)
    /\ UNCHANGED <<ptime, hooks>>
    /\ UNCHANGED notProgressVars

ProgressIdle ==
    /\ ptime = 10
    /\ throttle = NoThrottle
    /\ ready = <<>>
    /\ edits = <<>>
    /\ hooks = 0
    /\ actor = None

-----------------------------------------------------------------------------
(* The dispatcher.  A message text is described by the fragments it         *)
(* contains; every test of handle_links is a regular expression search or   *)
(* a substring test for one of these fragments.  "VK.COM" stands for the    *)
(* host written in upper case, which re.IGNORECASE accepts and the          *)
(* substring test 'vk.com' in url does not; "twitter.com" stands for the    *)
(* host not followed by a slash, "x.com/" for the host with the slash.      *)

Fragments == {"youtube.com", "instagram.com", "vk.com", "VK.COM", "/video",
              "wall-", "x.com/", "twitter.com", "/status/", "tiktok.com",
              "reddit.com", "dzen.ru"}
Texts == SUBSET Fragments

\* PLATFORMS, in the order of the dictionary (config.py lines 33-42): the
\* fragments in which re.search(pattern, url, re.IGNORECASE) finds a match
PlatformOrder == <<"yandex_zen", "youtube", "instagram", "tiktok", "twitter",
                   "vk", "reddit">>
Pattern(platform) ==
    CASE platform = "yandex_zen" -> {"dzen.ru"}
      [] platform = "youtube" -> {"youtube.com"}
      [] platform = "instagram" -> {"instagram.com"}
      [] platform = "tiktok" -> {"tiktok.com"}
      [] platform = "twitter" -> {"x.com/", "twitter.com"}
      [] platform = "vk" -> {"vk.com", "VK.COM"}
      [] platform = "reddit" -> {"reddit.com"}
ReSearch(platform, url) == url \cap Pattern(platform) # {}

\* 'vk.com' in url or 'vkvideo.ru' in url, line 51
VkDomain(url) == "vk.com" \in url
\* any(p in url for p in ['/video', '/clip', ...]), lines 52-60
VkVideoMarker(url) == "/video" \in url
\* any(p in url for p in ['wall-', '?w=wall', '?z=wall']), line 62
VkWallMarker(url) == "wall-" \in url
\* any(p in url for p in TWITTER_PATTERNS), line 69
TwitterMarker(url) == url \cap {"/status/", "x.com/"} # {}

RECURSIVE OtherPlatformsNoBreak(_, _)
OtherPlatformsNoBreak(i, url) ==
    IF i > Len(PlatformOrder) THEN <<>>
    ELSE IF PlatformOrder[i] \in {"vk", "twitter"}
    THEN OtherPlatformsNoBreak(i + 1, url)
    ELSE IF ReSearch(PlatformOrder[i], url)
    THEN <<"handle_video_download">> \o OtherPlatformsNoBreak(i + 1, url)
    ELSE OtherPlatformsNoBreak(i + 1, url)

\* the loop of lines 75-82 from the i-th platform on: the handlers it calls
RECURSIVE OtherPlatforms(_, _)
OtherPlatforms(i, url) ==
    IF i > Len(PlatformOrder) THEN <<>>
    ELSE IF PlatformOrder[i] \in {"vk", "twitter"}
    THEN OtherPlatforms(i + 1, url)
    ELSE IF ReSearch(PlatformOrder[i], url)
    THEN <<"handle_video_download">>
    ELSE OtherPlatforms(i + 1, url)

\* lines 43-87: the handlers called and the answers given, in order
HandleLinksActs(url) ==
    IF ReSearch("youtube", url) THEN <<"prompt_youtube_quality">>
    ELSE IF ReSearch("instagram", url) THEN <<"handle_instagram">>
    ELSE IF VkDomain(url)
    THEN IF VkVideoMarker(url) THEN <<"handle_vk_video_download">>
         ELSE IF VkWallMarker(url) THEN <<"handle_vk_post">>
         ELSE <<"answer_vk_hint">>
    ELSE IF ReSearch("twitter", url) /\ TwitterMarker(url)
    THEN <<"handle_twitter_post">>
    ELSE LET called == OtherPlatforms(1, url)
         IN  IF called = <<>> THEN <<"answer_unsupported">> ELSE called

NoCall == [url |-> {}, uid |-> None, acts |-> <<>>, first |-> <<>>,
           calls |-> 0, asked |-> 0, prompts |-> 0]

\* the message texts that arrive: the observed text, a YouTube link
\* (prompt_youtube_quality stores a token for it) and a text without any
\* known fragment
Arrivals == {inbox, {"youtube.com"}, {}}

\* handle_links is called with a non-empty message text
HandleLinks(url, uid) ==
    /\ dsp.calls < MaxCalls
    /\ url \in Arrivals
    /\ LET acts == HandleLinksActs(url) IN
       dsp' = [url |-> url, uid |-> uid, acts |-> acts,
               first |-> IF url = inbox /\ dsp.asked = 0 THEN acts ELSE dsp.first,
               calls |-> dsp.calls + 1,
               asked |-> IF url = inbox THEN dsp.asked + 1 ELSE dsp.asked,
               prompts |-> IF acts[1] = "prompt_youtube_quality"
                           THEN dsp.prompts + 1 ELSE dsp.prompts]
    /\ UNCHANGED <<inbox, inl>>
    /\ UNCHANGED notDispatchVars

\* any(p in url for p in VK_PATTERNS), inline.py line 203: of the fragments
\* only "/video", the path of a video as in /video-1_2, holds one of the
\* patterns; "wall-" is the marker of a post as in ?w=wall-1_2
InlineVkMarker(url) == "/video" \in url

\* handle_inline_query, lines 119-131: a text that matches no pattern of
\* PLATFORMS gets the unsupported result and no token
InlineAccepted(url) ==
    \E i \in 1..Len(PlatformOrder) : ReSearch(PlatformOrder[i], url)

\* _send_downloaded_video_inline, lines 201-206: the download function
InlineDownload(url) ==
    IF ReSearch("twitter", url) THEN "download_twitter_video"
    ELSE IF VkDomain(url) /\ InlineVkMarker(url) THEN "download_vk_video"
    ELSE "download_video"

\* the acquisition the handler of the chat path starts: handle_instagram
\* calls InstagramDownloader.download_content, handle_twitter_post the
\* browser scrape get_twitter_content, handle_vk_post the parser
\* parse_vk_url; prompt_youtube_quality leads to download_video
ChatDownload(act) ==
    CASE act = "prompt_youtube_quality" -> "download_video"
      [] act = "handle_video_download" -> "download_video"
      [] act = "handle_instagram" -> "download_content"
      [] act = "handle_vk_video_download" -> "download_vk_video"
      [] act = "handle_vk_post" -> "parse_vk_url"
      [] act = "handle_twitter_post" -> "get_twitter_content"
      [] OTHER -> "none"

NoInline == [called |-> FALSE, url |-> {}, download |-> "none"]

\* the token of an inline request for the observed text is redeemed and
\* _send_downloaded_video_inline starts the download
SendDownloadedVideoInline(url) ==
    /\ ~inl.called
    /\ url = inbox
    /\ InlineAccepted(url)
    /\ inl' = [called |-> TRUE, url |-> url, download |-> InlineDownload(url)]
    /\ UNCHANGED <<inbox, dsp>>
    /\ UNCHANGED notDispatchVars

DispatchIdle ==
    /\ inbox = {}
    /\ dsp = NoCall
    /\ inl = NoInline

-----------------------------------------------------------------------------
(* The format selector.  _youtube_format returns a yt-dlp selector: terms   *)
(* separated by "/", of which yt-dlp takes the first that yields a format.  *)
(* A term "bv*[..]+ba[..]" yields the best format with a video stream that  *)
(* passes the filters merged with the best audio-only format that passes    *)
(* its filters, and nothing if either is missing; a term "b[..]" yields the *)
(* best format that has both a video and an audio stream.                   *)

\* the encodings a video may offer; pref is the place yt-dlp's default
\* order gives the encoding among those of the same height (av01 before
\* vp9 before avc1)
Catalogue ==
    [v_avc |-> [video |-> TRUE, audio |-> FALSE, height |-> 720,
                vcodec |-> "avc1", acodec |-> "none", ext |-> "mp4", pref |-> 1],
     v_av1 |-> [video |-> TRUE, audio |-> FALSE, height |-> 720,
                vcodec |-> "av01", acodec |-> "none", ext |-> "mp4", pref |-> 3],
     v_vp9 |-> [video |-> TRUE, audio |-> FALSE, height |-> 720,
                vcodec |-> "vp9", acodec |-> "none", ext |-> "webm", pref |-> 2],
     v_big |-> [video |-> TRUE, audio |-> FALSE, height |-> 1080,
                vcodec |-> "avc1", acodec |-> "none", ext |-> "mp4", pref |-> 1],
     a_aac |-> [video |-> FALSE, audio |-> TRUE, height |-> 0,
                vcodec |-> "none", acodec |-> "mp4a", ext |-> "m4a", pref |-> 1],
     a_opus |-> [video |-> FALSE, audio |-> TRUE, height |-> 0,
                vcodec |-> "none", acodec |-> "opus", ext |-> "webm", pref |-> 2],
     c_720 |-> [video |-> TRUE, audio |-> TRUE, height |-> 720,
                vcodec |-> "avc1", acodec |-> "mp4a", ext |-> "mp4", pref |-> 0],
     c_360 |-> [video |-> TRUE, audio |-> TRUE, height |-> 360,
                vcodec |-> "avc1", acodec |-> "mp4a", ext |-> "mp4", pref |-> 0]]
FormatIds == DOMAIN Catalogue

\* target_height: 0 is None
Heights == {0, 480, 720, 1080}

\* one term of the selector: "merge" is bv*[..]+ba[..], "single" is b[..];
\* height 0 and "any" stand for a filter that is absent
Term(sel, height, vcodec, ext, acodec) ==
    [sel |-> sel, height |-> height, vcodec |-> vcodec, ext |-> ext,
     acodec |-> acodec]

YoutubeFormatContainerFirst(target_height) ==
    IF target_height # 0
    THEN <<Term("merge", target_height, "any", "mp4", "any"),
           Term("merge", target_height, "avc1", "mp4", "mp4a"),
           Term("merge", target_height, "any", "any", "any"),
           Term("single", target_height, "any", "any", "any"),
           Term("single", 0, "any", "any", "any")>>
    ELSE <<Term("merge", 0, "any", "mp4", "any"),
           Term("merge", 0, "avc1", "mp4", "mp4a"),
           Term("merge", 0, "any", "any", "any"),
           Term("single", 0, "any", "any", "any")>>

\* _youtube_format, lines 45-58
YoutubeFormat(target_height) ==
    IF target_height # 0
    THEN <<Term("merge", target_height, "avc1", "mp4", "mp4a"),
           Term("merge", target_height, "any", "mp4", "any"),
           Term("merge", target_height, "any", "any", "any"),
           Term("single", target_height, "any", "any", "any"),
           Term("single", 0, "any", "any", "any")>>
    ELSE <<Term("merge", 0, "avc1", "mp4", "mp4a"),
           Term("merge", 0, "any", "mp4", "any"),
           Term("merge", 0, "any", "any", "any"),
           Term("single", 0, "any", "any", "any")>>

\* yt-dlp's "best" of a non-empty set of encodings: the greatest height,
\* then the preferred codec
Best(S) ==
    CHOOSE f \in S : \A g \in S :
        \/ Catalogue[g].height < Catalogue[f].height
        \/ /\ Catalogue[g].height = Catalogue[f].height
           /\ Catalogue[g].pref <= Catalogue[f].pref

\* the encodings of avail that pass the video filters of term t
VideoPart(t, avail) ==
    {f \in avail :
        /\ Catalogue[f].video
        /\ t.height # 0 => Catalogue[f].height = t.height
        /\ t.vcodec # "any" => Catalogue[f].vcodec = t.vcodec
        /\ t.ext # "any" => Catalogue[f].ext = t.ext}
\* the audio-only encodings of avail that pass the audio filter of term t
AudioPart(t, avail) ==
    {f \in avail :
        /\ Catalogue[f].audio /\ ~Catalogue[f].video
        /\ t.acodec # "any" => Catalogue[f].acodec = t.acodec}
\* the single files of avail that pass the filter of term t
SinglePart(t, avail) ==
    {f \in avail :
        /\ Catalogue[f].video /\ Catalogue[f].audio
        /\ t.height # 0 => Catalogue[f].height = t.height}

\* what term t yields: <<video, audio>>, <<single file>>, or <<>> for nothing
Yield(t, avail) ==
    IF t.sel = "merge"
    THEN IF VideoPart(t, avail) # {} /\ AudioPart(t, avail) # {}
         THEN <<Best(VideoPart(t, avail)), Best(AudioPart(t, avail))>>
         ELSE <<>>
    ELSE IF SinglePart(t, avail) # {}
         THEN <<Best(SinglePart(t, avail))>>
         ELSE <<>>

\* the selector from its i-th term on: the yield of the first term that
\* yields a format
RECURSIVE SelectFormat(_, _, _)
SelectFormat(terms, i, avail) ==
    IF i > Len(terms) THEN <<>>
    ELSE IF Yield(terms[i], avail) # <<>> THEN Yield(terms[i], avail)
    ELSE SelectFormat(terms, i + 1, avail)

NoSelection == [height |-> 0, chosen |-> <<>>, done |-> FALSE]

\* yt-dlp selects the format for a download with target height h
ChooseFormat(h) ==
    /\ ~fsel.done
    /\ fsel' = [height |-> h,
                chosen |-> SelectFormat(YoutubeFormat(h), 1, formats),
                done |-> TRUE]
    /\ UNCHANGED <<formats, dl>>
    /\ UNCHANGED notFormatVars

\* the options get_ydl_opts returns, or the exception it raises
Opts(raised, format, extract_audio, merge_mp4) ==
    [raised |-> raised, format |-> format, extract_audio |-> extract_audio,
     merge_mp4 |-> merge_mp4]

\* get_ydl_opts, lines 60-91, as its indentation reads: the return of line 87
\* belongs to the YouTube branch and not to the test of youtube_audio_only,
\* so that a YouTube link without audio-only reads audio_opts unassigned;
\* the return of line 88 ends the function for every other link.  (The
\* lines 93-104 behind it are never reached; line 94 is not indented under
\* the if of line 93.)
GetYdlOpts(youtube, youtube_audio_only) ==
    IF youtube
    THEN IF youtube_audio_only
         THEN Opts("none", "bestaudio", TRUE, FALSE)
         ELSE Opts("UnboundLocalError", "none", FALSE, FALSE)
    ELSE Opts("none", "video_chain", FALSE, TRUE)

NoDownload == [called |-> FALSE, youtube |-> FALSE, audio_only |-> FALSE,
               height |-> 0, opts |-> Opts("none", "none", FALSE, FALSE),
               ret |-> "none"]

\* download_video(url, youtube_target_height, youtube_audio_only), lines
\* 151-179: an exception of get_ydl_opts is logged and raised again, a
\* DownloadError of yt-dlp (no format to download) becomes a ValueError
DownloadVideo(youtube, h, youtube_audio_only) ==
    /\ ~dl.called
    /\ ~fsel.done
    /\ LET opts == GetYdlOpts(youtube, youtube_audio_only)
           chosen == SelectFormat(YoutubeFormat(h), 1, formats)
           audios == {f \in formats : Catalogue[f].audio /\ ~Catalogue[f].video}
       IN  /\ dl' = [called |-> TRUE, youtube |-> youtube,
                     audio_only |-> youtube_audio_only, height |-> h,
                     opts |-> opts,
                     ret |-> IF opts.raised # "none" THEN opts.raised
                             ELSE IF opts.format = "video_chain"
                             THEN IF chosen # <<>> THEN "video_file"
                                  ELSE "ValueError"
                             ELSE IF audios # {} THEN "audio_file"
                                  ELSE "ValueError"]
           /\ fsel' = IF opts.format = "video_chain"
                      THEN [height |-> h, chosen |-> chosen, done |-> TRUE]
                      ELSE fsel
    /\ UNCHANGED formats
    /\ UNCHANGED notFormatVars

FormatIdle ==
    /\ formats = {}
    /\ fsel = NoSelection
    /\ dl = NoDownload

-----------------------------------------------------------------------------
(* The orchestrator download_content.  A media file is described by its     *)
(* kind and size class: a "big" file is larger than                         *)
(* MAX_TELEGRAM_VIDEO_SIZE, the size _process_video_file and                *)
(* _send_media_file compare with.                                           *)

Downloads == {"photo", "video", "big_video"}
Oversize == {"big_video", "big_merged"}

NoResult == [kind |-> "none", media |-> <<>>, text |-> <<>>, status |-> "none"]
\* a return value ({'media': .., 'text': ..}, status) of download_content
Result(media, text, status) ==
    [kind |-> "result", media |-> media, text |-> text, status |-> status]
\* lines 101-103: the except clause of download_content
ErrorResult == Result(<<>>, <<>>, "Error")

NoContent == [pc |-> "off", merge_all |-> FALSE, media |-> <<>>, text |-> <<>>,
              status |-> "none", merge_ret |-> "not_called", faults |-> {},
              on_disk |-> {}, ret |-> NoResult, left |-> {}]

\* download_content(url, merge_all) is called
ContentStart(merge_all) ==
    /\ dc.pc = "off"
    /\ dc' = [dc EXCEPT !.pc = "disk", !.merge_all = merge_all]
    /\ UNCHANGED notContentVars

\* _check_disk_space, lines 104-117: raises when less than 500 MB are free
\* or disk_usage fails
CheckDiskSpace(ok) ==
    /\ dc.pc = "disk"
    /\ dc' = IF ok THEN [dc EXCEPT !.pc = "raw"]
             ELSE [dc EXCEPT !.pc = "done", !.faults = @ \cup {"disk"},
                             !.ret = ErrorResult]
    /\ UNCHANGED notContentVars

\* lines 77-82: _download_content_raw returns the files and a status, an
\* empty list after its strategies have failed
RawReturn(files) ==
    /\ dc.pc = "raw"
    /\ dc' = IF files = <<>>
             THEN [dc EXCEPT !.pc = "done", !.status = "failed",
                             !.faults = @ \cup {"strategy"},
                             !.ret = Result(<<>>, <<>>, "failed")]
             ELSE [dc EXCEPT !.pc = "text", !.media = files, !.status = "ok",
                             !.on_disk = 1..Len(files)]
    /\ UNCHANGED notContentVars

\* where download_content goes after the text: lines 90 and 98
AfterText(rec) ==
    IF rec.merge_all /\ Len(rec.media) > 1
    THEN [rec EXCEPT !.pc = "merge"]
    ELSE [rec EXCEPT !.pc = "done",
                     !.ret = Result(rec.media, rec.text, rec.status)]

\* lines 85-87: _extract_post_text returns the caption file or None; a
\* failure inside it is logged and gives None (lines 355-366)
ExtractPostText(o) ==
    /\ dc.pc = "text"
    /\ dc' = AfterText([dc EXCEPT
                 !.text = IF o = "file" THEN <<"caption">> ELSE <<>>,
                 !.faults = IF o = "failed" THEN @ \cup {"text"} ELSE @])
    /\ UNCHANGED notContentVars

\* _merge_all_media up to its try, lines 119-128: _ensure_directory_exists
\* logs and raises again when the scratch directory cannot be made; the
\* exception leaves _merge_all_media and is caught in download_content
MergeEnter(ok) ==
    /\ dc.pc = "merge"
    /\ dc' = IF ok THEN [dc EXCEPT !.pc = "merging"]
             ELSE [dc EXCEPT !.pc = "done", !.merge_ret = "OSError",
                             !.faults = @ \cup {"mkdir"},
                             !.ret = ErrorResult]
    /\ UNCHANGED notContentVars

\* the try of _merge_all_media, lines 130-232, and lines 92-98 of
\* download_content: the merge returns the output file or None; after an
\* output the originals are removed with _safe_remove_file, which logs an
\* error of os.remove and goes on (lines 646-652): stuck are the originals
\* whose removal failed
MergeBody(o, stuck) ==
    /\ dc.pc = "merging"
    /\ stuck \subseteq dc.on_disk
    /\ o = "None" => stuck = dc.on_disk
    /\ dc' = IF o = "None"
             THEN [dc EXCEPT !.pc = "done", !.merge_ret = "None",
                             !.faults = @ \cup {"merge"},
                             !.ret = Result(dc.media, dc.text, dc.status)]
             ELSE [dc EXCEPT !.pc = "done", !.merge_ret = "output",
                             !.on_disk = stuck,
                             !.status = "ok (media merged)",
                             !.ret = Result(<<o>>, dc.text, "ok (media merged)")]
    /\ UNCHANGED notContentVars

\* the artifact files of the request that exist when download_content has
\* returned: the originals still on disk, the merged file, the caption file
ContentDisk(rec) ==
    {<<"media", i>> : i \in rec.on_disk}
        \cup (IF rec.merge_ret = "output" THEN {<<"merged", 0>>} ELSE {})
        \cup (IF rec.text # <<>> THEN {<<"caption", 0>>} ELSE {})

\* the files named in the result handle_instagram receives
ReturnedFiles(rec) ==
    (IF rec.merge_ret = "output" THEN {<<"merged", 0>>}
     ELSE {<<"media", i>> : i \in 1..Len(rec.ret.media)})
        \cup (IF rec.ret.text # <<>> THEN {<<"caption", 0>>} ELSE {})

\* handle_instagram after download_content, handlers/instagram.py lines
\* 21-50: without media it answers the status and returns (21-23); it sends
\* the text (26-31), where a failure of open or message.answer leaves for
\* the outer except (48-50), which removes nothing; it sends every media
\* file and removes it in the finally (34-40), then removes the text file
\* (43-44).  _safe_remove_file logs an error of os.remove and goes on
\* (services/instagram.py lines 646-652): rm_ok tells whether the removals
\* succeed.
HandleInstagram(o, rm_ok) ==
    /\ dc.pc = "done"
    /\ o = "text_raised" => dc.ret.text # <<>>
    /\ dc' = [dc EXCEPT
                 !.pc = "handled",
                 !.left = IF dc.ret.media = <<>> \/ o = "text_raised" \/ ~rm_ok
                          THEN ContentDisk(dc)
                          ELSE ContentDisk(dc) \ ReturnedFiles(dc)]
    /\ UNCHANGED notContentVars

ContentIdle ==
    /\ dc = NoContent

-----------------------------------------------------------------------------
(* The scheduler.  All handlers are coroutines of one asyncio event loop.  *)
(* A capability call made with asyncio.to_thread, create_subprocess_exec   *)
(* or aiohttp is awaited and leaves the loop to the other tasks; a         *)
(* synchronous call made directly inside a coroutine keeps the loop thread *)
(* until it returns.                                                       *)

SJobs == {"s1", "s2"}

Caps == {"ytdlp_video", "ytdlp_twitter", "ytdlp_vk", "browser", "api", "ffmpeg"}

\* the capability calls of a job, in order, by the handler that runs it
JobKinds == {"video", "twitter_video", "vk_video", "twitter_post", "instagram"}
Plan(kind) ==
    CASE kind = "video" -> <<"ytdlp_video">>
      [] kind = "twitter_video" -> <<"ytdlp_twitter">>
      [] kind = "vk_video" -> <<"ytdlp_vk">>
      [] kind = "twitter_post" -> <<"browser">>
      [] kind = "instagram" -> <<"api", "ffmpeg">>

\* where a call runs: download_video hands _download_video_sync to
\* asyncio.to_thread (downloader.py line 167), the API is called through
\* aiohttp and ffmpeg through asyncio.create_subprocess_exec; the bodies of
\* download_twitter_video, download_vk_video and get_twitter_content call
\* yt-dlp and Selenium directly
Where(cap) ==
    IF cap \in {"ytdlp_twitter", "ytdlp_vk", "browser"} THEN "loop"
    ELSE "elsewhere"

\* the calls that carry a timeout: socket_timeout 60 and 30 of the Twitter
\* and VK options, the socket timeout yt-dlp applies by default,
\* set_page_load_timeout(30) and WebDriverWait(.., 30), ClientTimeout of the
\* API session; await process.wait() on ffmpeg has none
Bounded(cap) == cap # "ffmpeg"

NoSJob == [pc |-> "idle", kind |-> None, step |-> 0, attempt |-> 0,
           outcome |-> None]

CapOf(j) == Plan(sjobs[j].kind)[sjobs[j].step]

\* a request arrives and the loop starts its handler
SchedStart(j, kind) ==
    /\ sjobs[j].pc = "idle"
    /\ holder = None
    /\ sjobs' = [sjobs EXCEPT ![j] = [NoSJob EXCEPT !.pc = "ready",
                                                    !.kind = kind, !.step = 1]]
    /\ UNCHANGED <<holder, hung>>
    /\ UNCHANGED notSchedVars

\* the loop runs the task of job j up to its next capability call
CallBegin(j) ==
    /\ sjobs[j].pc = "ready"
    /\ holder = None
    /\ sjobs' = [sjobs EXCEPT ![j].pc = "in_call"]
    /\ holder' = IF Where(CapOf(j)) = "loop" THEN j ELSE None
    /\ UNCHANGED hung
    /\ UNCHANGED notSchedVars

\* the job after its call has ended: the next call of its plan or the end
AfterCall(rec, ok) ==
    IF ~ok THEN [rec EXCEPT !.pc = "terminal", !.outcome = "failure"]
    ELSE IF rec.step < Len(Plan(rec.kind))
    THEN [rec EXCEPT !.pc = "ready", !.step = @ + 1, !.attempt = 0]
    ELSE [rec EXCEPT !.pc = "terminal", !.outcome = "success"]

\* the capability answers: with a result or with an error
CallRespond(j, ok) ==
    /\ sjobs[j].pc = "in_call"
    /\ CapOf(j) \notin hung
    /\ sjobs' = [sjobs EXCEPT ![j] = AfterCall(@, ok)]
    /\ holder' = IF holder = j THEN None ELSE holder
    /\ UNCHANGED hung
    /\ UNCHANGED notSchedVars

\* the timeout of a call expires: the API call is tried again by
\* _download_content_raw up to MAX_RETRIES attempts, the other handlers
\* report the failure
CallTimeout(j) ==
    /\ sjobs[j].pc = "in_call"
    /\ CapOf(j) \in hung
    /\ Bounded(CapOf(j))
    /\ sjobs' = [sjobs EXCEPT ![j] =
                    IF CapOf(j) = "api" /\ @.attempt + 1 < MAX_RETRIES
                    THEN [@ EXCEPT !.pc = "ready", !.attempt = @ + 1]
                    ELSE AfterCall(@, FALSE)]
    /\ holder' = IF holder = j THEN None ELSE holder
    /\ UNCHANGED hung
    /\ UNCHANGED notSchedVars

SchedIdle ==
    /\ sjobs = [j \in SJobs |-> NoSJob]
    /\ holder = None
    /\ hung = {}

-----------------------------------------------------------------------------
(* The quality choices.  An encoding is a pair <<width, height>>, as       *)
(* get_youtube_resolutions returns it.                                     *)

Resolutions == {<<256, 144>>, <<426, 240>>, <<640, 360>>, <<480, 360>>,
                <<1280, 720>>, <<608, 1080>>}

\* the list of youtube.py line 53 and inline.py lines 108-115
DefaultLadder == {<<640, 360>>, <<854, 480>>, <<1280, 720>>, <<1920, 1080>>,
                  <<2560, 1440>>, <<3840, 2160>>}

\* key=lambda r: (r[1], r[0])
KeyBefore(a, b) == a[2] < b[2] \/ (a[2] = b[2] /\ a[1] <= b[1])

\* sorted(set(available), key=...)
RECURSIVE SortedByKey(_)
SortedByKey(S) ==
    IF S = {} THEN <<>>
    ELSE LET first == CHOOSE a \in S : \A b \in S : KeyBefore(a, b)
         IN  <<first>> \o SortedByKey(S \ {first})

\* youtube.py lines 42-53, inline.py lines 97-113: resolutions stays empty
\* when the query raises
Available(failed, pairs) ==
    IF ~failed /\ pairs # {}
    THEN LET floor == {r \in pairs : r[2] >= 360}
         IN  IF floor = {} THEN pairs ELSE floor
    ELSE DefaultLadder

\* what identifies one offered choice: the callback data ytq:token:WxH of a
\* button (youtube.py line 62), the result id yt:token:H of an inline result
\* (inline.py line 122)
Choice(f, r) == IF f = "inline" THEN <<r[2]>> ELSE r

NoOffer == [flow |-> None, available |-> <<>>, choices |-> <<>>,
            done |-> FALSE]

\* prompt_youtube_quality (flow "yt") or the YouTube branch of
\* handle_inline_query (flow "inline") builds its list of choices
OfferQualities(f) ==
    /\ ~offer.done
    /\ LET available == SortedByKey(Available(encodings.failed,
                                               encodings.pairs))
       IN  offer' = [flow |-> f,
                     available |-> available,
                     choices |-> [i \in DOMAIN available |->
                                      Choice(f, available[i])],
                     done |-> TRUE]
    /\ UNCHANGED encodings
    /\ UNCHANGED notQualityVars

QualityIdle ==
    /\ encodings = [failed |-> FALSE, pairs |-> {}]
    /\ offer = NoOffer

-----------------------------------------------------------------------------

StoreInit ==
    /\ flow \in Flows
    /\ requests = [k \in {} |-> NoData]
    /\ now = 0
    /\ ticks = 0
    /\ issued = 0
    /\ ledger = [k \in {} |-> NoData]
    /\ redeemed = {}
    /\ jobs = [t \in Tokens |-> 0]
    /\ tasks = [h \in Handlers |-> Idle]
    /\ last = NoObs

RetryIdle ==
    /\ use_api = USE_INSTAGRAM_API
    /\ rpc = "off"
    /\ attempt = 0
    /\ calls = <<>>
    /\ sleeps = <<>>
    /\ result = None

Init ==
    /\ StoreInit
    /\ RetryIdle
    /\ ScrapeIdle
    /\ MergeIdle
    /\ DiskIdle
    /\ ProgressIdle
    /\ DispatchIdle
    /\ FormatIdle
    /\ ContentIdle
    /\ SchedIdle
    /\ QualityIdle

RetryInit ==
    /\ StoreInit
    /\ flow = "yt"
    /\ use_api = USE_INSTAGRAM_API
    /\ rpc = "off"
    /\ attempt = 0
    /\ calls = <<>>
    /\ sleeps = <<>>
    /\ result = None
    /\ ScrapeIdle
    /\ MergeIdle
    /\ DiskIdle
    /\ ProgressIdle
    /\ DispatchIdle
    /\ FormatIdle
    /\ ContentIdle
    /\ SchedIdle
    /\ QualityIdle

ScrapeInit ==
    /\ StoreInit
    /\ flow = "yt"
    /\ RetryIdle
    /\ ScrapeIdle
    /\ MergeIdle
    /\ DiskIdle
    /\ ProgressIdle
    /\ DispatchIdle
    /\ FormatIdle
    /\ ContentIdle
    /\ SchedIdle
    /\ QualityIdle

MergeInit ==
    /\ StoreInit
    /\ flow = "yt"
    /\ RetryIdle
    /\ ScrapeIdle
    /\ media_files \in SeqsUpTo(Kinds, MaxItems)
    /\ mpc = "off"
    /\ item = 1
    /\ video_segments = <<>>
    /\ temp_dir = FALSE
    /\ temp_files = {}
    /\ manifest = <<>>
    /\ concats = 0
    /\ output_file = FALSE
    /\ merged = None
    /\ exit_path = None
    /\ outcomes = <<>>
    /\ list_outcome = None
    /\ concat_outcome = None
    /\ DiskIdle
    /\ ProgressIdle
    /\ DispatchIdle
    /\ FormatIdle
    /\ ContentIdle
    /\ SchedIdle
    /\ QualityIdle

DiskInit ==
    /\ StoreInit
    /\ flow = "yt"
    /\ RetryIdle
    /\ ScrapeIdle
    /\ MergeIdle
    /\ DiskIdle
    /\ ProgressIdle
    /\ DispatchIdle
    /\ FormatIdle
    /\ ContentIdle
    /\ SchedIdle
    /\ QualityIdle

ProgressInit ==
    /\ StoreInit
    /\ flow = "yt"
    /\ RetryIdle
    /\ ScrapeIdle
    /\ MergeIdle
    /\ DiskIdle
    /\ ProgressIdle
    /\ DispatchIdle
    /\ FormatIdle
    /\ ContentIdle
    /\ SchedIdle
    /\ QualityIdle

DispatchInit ==
    /\ StoreInit
    /\ flow = "yt"
    /\ RetryIdle
    /\ ScrapeIdle
    /\ MergeIdle
    /\ DiskIdle
    /\ ProgressIdle
    /\ inbox \in Texts
    /\ dsp = NoCall
    /\ inl = NoInline
    /\ FormatIdle
    /\ ContentIdle
    /\ SchedIdle
    /\ QualityIdle

FormatInit ==
    /\ StoreInit
    /\ flow = "yt"
    /\ RetryIdle
    /\ ScrapeIdle
    /\ MergeIdle
    /\ DiskIdle
    /\ ProgressIdle
    /\ DispatchIdle
    /\ formats \in SUBSET FormatIds
    /\ fsel = NoSelection
    /\ dl = NoDownload
    /\ ContentIdle
    /\ SchedIdle
    /\ QualityIdle

ContentInit ==
    /\ StoreInit
    /\ flow = "yt"
    /\ RetryIdle
    /\ ScrapeIdle
    /\ MergeIdle
    /\ DiskIdle
    /\ ProgressIdle
    /\ DispatchIdle
    /\ FormatIdle
    /\ dc = NoContent
    /\ SchedIdle
    /\ QualityIdle

SchedInit ==
    /\ StoreInit
    /\ flow = "yt"
    /\ RetryIdle
    /\ ScrapeIdle
    /\ MergeIdle
    /\ DiskIdle
    /\ ProgressIdle
    /\ DispatchIdle
    /\ FormatIdle
    /\ ContentIdle
    /\ sjobs = [j \in SJobs |-> NoSJob]
    /\ holder = None
    /\ hung \in {{}} \cup {{c} : c \in Caps}
    /\ QualityIdle

QualityInit ==
    /\ StoreInit
    /\ flow = "yt"
    /\ RetryIdle
    /\ ScrapeIdle
    /\ MergeIdle
    /\ DiskIdle
    /\ ProgressIdle
    /\ DispatchIdle
    /\ FormatIdle
    /\ ContentIdle
    /\ SchedIdle
    /\ encodings \in [failed : BOOLEAN, pairs : SUBSET Resolutions]
    /\ encodings.failed => encodings.pairs = {}
    /\ offer = NoOffer

Next ==
    \/ \E d \in TimeSteps : Tick(d)
    \/ \E uid \in Requesters : Put(UrlOf(issued + 1), uid)
    \/ \E h \in Handlers, form \in Forms : \E p \in Presented(form) :
          HandleYoutubeChoice(h, p[1], p[2], form)
    \/ \E h \in Handlers, ok \in BOOLEAN : YoutubeChoiceProceed(h, ok)
    \/ \E h \in Handlers, form \in Forms : \E p \in Presented(form) :
          HandleChosenInlineResult(h, p[1], p[2], form)
    \/ \E h \in Handlers : DownloadDone(h)

Spec == Init /\ [][Next]_vars

RetryNext ==
    \/ DownloadContentRaw
    \/ \E o \in Outcomes : DownloadViaApi(o)
    \/ \E o \in Outcomes : DownloadViaInstaloader(o)
    \/ BackoffSleep

RetrySpec == RetryInit /\ [][RetryNext]_vars

ScrapeNext ==
    \/ \E j \in Scrapes, init \in BOOLEAN, load \in BOOLEAN : HandlePost(j, init, load)
    \/ \E j \in Scrapes : ScrapeResume(j)

ScrapeSpec == ScrapeInit /\ [][ScrapeNext]_vars

MergeNext ==
    \/ MergeStart
    \/ \E o \in ConvertOutcomes : ConvertItem(o)
    \/ \E ok \in BOOLEAN : WriteManifest(ok)
    \/ \E o \in ConcatOutcomes : Concat(o)
    \/ \E o \in CleanupOutcomes : Cleanup(o)

MergeSpec == MergeInit /\ [][MergeNext]_vars

DiskNext ==
    \/ ClockTick
    \/ \E j \in DJobs, kind \in {"insta", "video"}, title \in Titles \cup {0} :
          StartJob(j, kind, title)
    \/ \E j \in DJobs, o \in {"ok", "refused", "broken"} : DownloadMediaFile(j, o)
    \/ \E j \in DJobs : ApiReturn(j)
    \/ \E j \in DJobs, ok \in BOOLEAN : MergeEnd(j, ok)
    \/ \E j \in DJobs, o \in {"expected", "renamed", "nothing", "failed"} :
          YtDlpRun(j, o)
    \/ \E j \in DJobs, pick \in AllPaths : VerifyArtifact(j, pick)

DiskSpec == DiskInit /\ [][DiskNext]_vars

ProgressNext ==
    \/ \E d \in {1, 2} : ProgressTick(d)
    \/ \E status \in {"downloading", "finished", "error"},
          text \in ProgressTexts \cup {FinishedText}, downloaded \in 0..2 :
          ProgressHook(status, text, downloaded)
    \/ UpdateProgress

ProgressSpec == ProgressInit /\ [][ProgressNext]_vars

DispatchNext ==
    \/ \E url \in Arrivals, uid \in Requesters : HandleLinks(url, uid)
    \/ \E url \in Arrivals : SendDownloadedVideoInline(url)

DispatchSpec == DispatchInit /\ [][DispatchNext]_vars

FormatNext ==
    \/ \E h \in Heights : ChooseFormat(h)
    \/ \E youtube \in BOOLEAN, h \in Heights, a \in BOOLEAN :
            DownloadVideo(youtube, h, a)

FormatSpec == FormatInit /\ [][FormatNext]_vars

ContentNext ==
    \/ \E merge_all \in BOOLEAN : ContentStart(merge_all)
    \/ \E ok \in BOOLEAN : CheckDiskSpace(ok)
    \/ \E files \in SeqsUpTo(Downloads, MaxMedia) : RawReturn(files)
    \/ \E o \in {"file", "none", "failed"} : ExtractPostText(o)
    \/ \E ok \in BOOLEAN : MergeEnter(ok)
    \/ \E o \in {"merged", "big_merged", "None"}, stuck \in SUBSET (1..MaxMedia) :
            MergeBody(o, stuck)
    \/ \E o \in {"sent", "text_raised"}, rm_ok \in BOOLEAN :
            HandleInstagram(o, rm_ok)

ContentSpec == ContentInit /\ [][ContentNext]_vars

SchedNext ==
    \/ \E j \in SJobs, kind \in JobKinds : SchedStart(j, kind)
    \/ \E j \in SJobs : CallBegin(j)
    \/ \E j \in SJobs, ok \in BOOLEAN : CallRespond(j, ok)
    \/ \E j \in SJobs : CallTimeout(j)

SchedSpec == SchedInit /\ [][SchedNext]_vars

QualityNext ==
    \/ \E f \in Flows : OfferQualities(f)

QualitySpec == QualityInit /\ [][QualityNext]_vars

\* the loop runs every task that is ready, and a call that can end does end
SchedLive == SchedSpec /\ WF_vars(SchedNext)

-----------------------------------------------------------------------------
(* Properties of the request store, checked under Spec *)

Issued(token) == token \in DOMAIN ledger
Owner(token) == ledger[token].owner
Took == last.op = "take"

\* C1: once a take has returned the URL of a token, every later take with
\* that token returns none, whoever asks and whatever happened in between.
C1_TokenSingleUse ==
    (Took /\ last.again) => last.ret = None

C1_Witness ==
    /\ Took /\ last.again /\ last.ret = None
    /\ last.uid = Owner(last.token)
    /\ issued = MaxTokens

\* C2: a take by a requester other than the one a stored, unexpired token
\* was created for returns none.
C2_TokenIsolation ==
    (/\ Took /\ Issued(last.token)
     /\ last.token \in last.removed
     /\ last.age <= YT_REQUEST_TTL
     /\ last.uid # Owner(last.token))
    => last.ret = None

C2_Witness ==
    /\ Took /\ Issued(last.token)
    /\ last.token \in last.removed
    /\ last.age <= YT_REQUEST_TTL
    /\ last.uid # Owner(last.token)
    /\ last.ret = None

\* C3: a take of a token whose age exceeds the TTL (one made 16 minutes
\* after the put, say) returns none, whatever happened in between.
C3_ExpiredNotRedeemable ==
    (Took /\ Issued(last.token) /\ last.age > YT_REQUEST_TTL) => last.ret = None

\* C4: a take that returns none leaves the store as it was.
C4_FailedTakeKeepsStore ==
    (Took /\ last.ret = None) => last.removed = {}

\* C5: of the handlers that redeem one token, at most one obtains the URL
\* and starts a download job.
C5_OneJobPerToken ==
    \A t \in Tokens :
        /\ jobs[t] <= 1
        /\ Cardinality({h \in Handlers : tasks[h].pc # "idle" /\ tasks[h].token = t}) <= 1

C5_Witness ==
    \E h \in Handlers :
        /\ tasks[h].pc \in {"answering", "downloading"}
        /\ Took /\ last.token = tasks[h].token
        /\ last.uid = Owner(last.token)
        /\ last.ret = None

\* what a requester sees when the take of handle_youtube_choice /
\* handle_chosen_inline_result has returned none
StaleResponse == IF flow = "yt" THEN "stale" ELSE None

\* C6: a redemption of a token that was never issued, was already redeemed,
\* has expired or belongs to another requester gets none from the take, and
\* the requester gets the same response in all four cases.
C6_UniformFailure ==
    (/\ Took
     /\ \/ ~Issued(last.token)
        \/ last.again
        \/ last.age > YT_REQUEST_TTL
        \/ last.uid # Owner(last.token))
    => (last.ret = None /\ last.resp = StaleResponse)

\* C7: right after a put the store maps the returned token to the given URL
\* and requester, and holds no entry older than the TTL.
C7_PutPostcondition ==
    last.op = "put" =>
        /\ last.token = issued
        /\ last.token \in DOMAIN requests
        /\ requests[last.token] = ledger[last.token]
        /\ requests[last.token].ts = now
        /\ \A k \in DOMAIN requests : now - requests[k].ts <= YT_REQUEST_TTL

C7_Witness ==
    /\ last.op = "put"
    /\ last.removed # {}
    /\ last.token \in DOMAIN requests

-----------------------------------------------------------------------------
(* Properties of the retry loop, checked under RetrySpec *)

Returned == rpc = "done"
AttemptsMade == Cardinality({calls[i][1] : i \in DOMAIN calls})
LastCall == calls[Len(calls)]
AllCallsFailedRetryable == \A i \in DOMAIN calls : calls[i][3] \in Retryable

\* C8: when every strategy call fails with a retryable error, the loop
\* makes exactly MAX_RETRIES attempts and then returns a failure.
C8_RetryBound ==
    /\ AttemptsMade <= MAX_RETRIES
    /\ (Returned /\ AllCallsFailedRetryable) =>
           (AttemptsMade = MAX_RETRIES /\ result \in Retryable)

C8_Witness ==
    /\ Returned /\ AllCallsFailedRetryable
    /\ use_api
    /\ Len(calls) = 2 * MAX_RETRIES

\* C9: after a strategy call has failed with a non-retryable error no
\* further attempt is made; only retryable failures lead to another attempt.
C9_NonRetryableEndsLoop ==
    \A i, j \in DOMAIN calls :
        /\ calls[i][3] \in NonRetryable => calls[j][1] <= calls[i][1]
        /\ (calls[j][1] = calls[i][1] + 1 /\ calls[i][2] = "instaloader")
               => calls[i][3] \in Retryable

\* C10: the wait between attempt k and attempt k+1 is 2^k seconds, and no
\* wait follows a successful attempt or the final attempt.
C10_Backoff ==
    /\ \A i \in DOMAIN sleeps : sleeps[i] = <<i - 1, Pow2(i - 1)>>
    /\ \A i \in DOMAIN calls : calls[i][1] <= Len(sleeps)
    /\ calls # <<>> =>
           /\ Len(sleeps) <= LastCall[1] + 1
           /\ Returned => Len(sleeps) = LastCall[1]
           /\ rpc = "sleep" =>
                  (LastCall[3] # "media" /\ LastCall[1] < MAX_RETRIES - 1)

C10_Witness ==
    /\ Returned
    /\ Len(sleeps) = MAX_RETRIES - 1
    /\ result = "media"

\* C11: in every attempt the scraper is called only directly after an API
\* call of the same attempt that returned without media, and an API call
\* that returned media is the last call of the whole loop.
C11_ApiBeforeScraper ==
    \A i \in DOMAIN calls :
        /\ calls[i][2] = "instaloader" =>
               /\ i > 1
               /\ calls[i - 1][1] = calls[i][1]
               /\ calls[i - 1][2] = "api"
               /\ calls[i - 1][3] \notin {"media", "raised"}
        /\ (calls[i][2] = "api" /\ calls[i][3] = "media") =>
               /\ i = Len(calls)
               /\ Returned
               /\ result = "media"

C11_Witness ==
    /\ Returned
    /\ Len(calls) = 3
    /\ calls[2][2] = "instaloader"
    /\ LastCall = <<1, "api", "media">>

-----------------------------------------------------------------------------
(* Properties of the browser scrape, checked under ScrapeSpec *)

ScrapeReturned(j) == scr[j].pc = "done"

\* C12: when init_driver has failed, the error is reported to the requester
\* only after MAX_RETRIES initialisations with a backoff wait between them.
C12_InitFailureRetried ==
    \A j \in Scrapes :
        (scr[j].reply = "error" /\ scr[j].initFailed) =>
            (scr[j].inits = MAX_RETRIES /\ scr[j].naps = MAX_RETRIES - 1)

\* C19: every invocation touches only the browser instance it created,
\* has quit exactly that instance when it returns, and no instance is
\* alive once every started invocation has returned.
C19_OwnBrowserOnly ==
    /\ \A j \in Scrapes :
           /\ scr[j].used \subseteq {scr[j].own}
           /\ ScrapeReturned(j) => scr[j].quit = {scr[j].own} \ {0}
    /\ (\A j \in Scrapes : scr[j].pc \in {"idle", "done"}) => alive = {}

-----------------------------------------------------------------------------
(* Properties of the merge, checked under MergeSpec *)

MergeReturned == mpc = "done"
\* the items whose ffmpeg run ended with returncode 0 and a segment
Converted == {i \in DOMAIN outcomes : outcomes[i] = "ok"}
SomeItemFailed == \E i \in DOMAIN outcomes : outcomes[i] # "ok"
Ascending(q) == \A i, j \in DOMAIN q : i < j => q[i] < q[j]
InInputOrder(q) == Ascending(q) /\ {q[i] : i \in DOMAIN q} = Converted
ConcatFailed == concat_outcome \in ConcatOutcomes \ {"ok"}

\* C13: when the merge has returned, on whatever path, neither the scratch
\* directory nor any file inside it exists.
C13_ScratchRemoved ==
    MergeReturned => (~temp_dir /\ temp_files = {})

\* C14 as stated: when some items failed and at least one converted, the
\* merge returns the output built from exactly the converted items.
C14_PartialMergeSucceeds ==
    (MergeReturned /\ SomeItemFailed /\ Converted # {}) =>
        (merged = "output" /\ InInputOrder(manifest))

\* C14 amended: when some items failed and at least one converted, every
\* item was visited, and if the manifest was written and the concatenation
\* succeeded the merge returns the output built from exactly the converted
\* items.
C14_PartialMergeAmended ==
    (MergeReturned /\ SomeItemFailed /\ Converted # {}) =>
        /\ Len(outcomes) = Len(media_files)
        /\ concat_outcome = "ok" =>
               (merged = "output" /\ output_file /\ InInputOrder(manifest))

C14_Witness ==
    /\ MergeReturned
    /\ Len(media_files) = 3
    /\ Cardinality(Converted) = 2
    /\ outcomes[2] = "error"
    /\ merged = "output"
    /\ manifest = <<1, 3>>

\* C15 as stated: the merge fails only if no segment was produced, and
\* yields the output whenever a segment was produced.
C15_FailsOnlyWithoutSegments ==
    MergeReturned =>
        /\ merged = "failed" => Converted = {}
        /\ Converted # {} => (merged = "output" /\ output_file)

\* C15 amended: the merge fails only if no segment was produced, or the
\* manifest could not be written, or the concatenation failed; with a
\* segment, a manifest and a successful concatenation it yields the output.
C15_FailureCauses ==
    MergeReturned =>
        /\ merged = "failed" =>
               (Converted = {} \/ list_outcome = "failed" \/ ConcatFailed)
        /\ (Converted # {} /\ list_outcome = "ok" /\ concat_outcome = "ok") =>
               (merged = "output" /\ output_file)

C15_Witness ==
    /\ MergeReturned
    /\ merged = "failed"
    /\ Converted # {}
    /\ concat_outcome = "nonzero"
    /\ ~output_file

\* C16: the manifest lists the converted items in input order, each once;
\* the concatenation runs once on it; when every item converts the manifest
\* has as many lines as there are items.
C16_ManifestOrder ==
    /\ concats <= 1
    /\ list_outcome = "ok" =>
           /\ InInputOrder(manifest)
           /\ Converted = DOMAIN media_files => Len(manifest) = Len(media_files)
    /\ merged = "output" => (concats = 1 /\ list_outcome = "ok")

C16_Witness ==
    /\ MergeReturned
    /\ media_files = <<"photo", "photo", "video">>
    /\ manifest = <<1, 2, 3>>
    /\ concats = 1
    /\ merged = "output"

-----------------------------------------------------------------------------
(* Properties of the download directory, checked under DiskSpec *)

Concurrent(a, b) == a \in djobs[b].among \/ b \in djobs[a].among

\* C17: when an acquisition operation has ended in failure, none of the
\* files it created was still on disk at its return.
C17_FailureLeavesNoFile ==
    \A f \in failures : f.left = {}

\* C18: two jobs that ran concurrently have created disjoint sets of paths
\* in the download directory.
C18_DisjointPaths ==
    \A a, b \in DJobs :
        (a # b /\ Concurrent(a, b)) => djobs[a].wrote \cap djobs[b].wrote = {}

\* C20: a download whose expected path held no file returns the most
\* recently created file with an expected extension, reports the artifact
\* missing only if there was no such file, and returns only paths that exist.
C20_ScanReturnsNewest ==
    \A j \in DJobs :
        (djobs[j].kind = "video" /\ djobs[j].pc = "done") =>
            /\ (djobs[j].scanned /\ djobs[j].outcome = "success") =>
                   djobs[j].ret = djobs[j].newest
            /\ djobs[j].outcome = "artifact_missing" => Matching(disk) = {}
            /\ djobs[j].outcome = "success" => djobs[j].ret \in DOMAIN disk

-----------------------------------------------------------------------------
(* Properties of the progress callback, checked under ProgressSpec *)

Payload(e) == <<e[2], e[3]>>

\* C21: two consecutive edits are at least 0.3 s apart and carry different
\* payloads (text, downloaded bytes).
C21_EditsThrottled ==
    \A i \in DOMAIN edits :
        i > 1 => /\ edits[i][1] - edits[i - 1][1] >= MIN_INTERVAL
                 /\ Payload(edits[i]) # Payload(edits[i - 1])

C21_Witness ==
    /\ Len(edits) = 2
    /\ edits[2][1] - edits[1][1] = MIN_INTERVAL
    /\ edits[2][2] = edits[1][2]
    /\ hooks = 3
    /\ ready = <<>>

\* C22: a step of the worker thread leaves the throttle state and the edits
\* as they are; they change only in a step of a task on the event loop.
C22_HookLeavesThrottle ==
    [][ /\ actor' = "worker" => (throttle' = throttle /\ edits' = edits)
        /\ (throttle' # throttle \/ edits' # edits) => actor' = "loop" ]_vars

C22_Witness ==
    /\ actor = "worker"
    /\ throttle # NoThrottle
    /\ Len(ready) = 2


-----------------------------------------------------------------------------
(* Properties of the dispatcher (DispatchSpec) *)

Called == dsp.calls > 0

\* the platform rules a message text satisfies
YoutubeRule(url) == ReSearch("youtube", url)
InstagramRule(url) == ReSearch("instagram", url)
TwitterRule(url) == ReSearch("twitter", url) /\ TwitterMarker(url)
VkRule(url) == VkDomain(url)
OtherRule(url) == \E p \in {"yandex_zen", "tiktok", "reddit"} : ReSearch(p, url)
RulesSatisfied(url) ==
    {r \in {"youtube", "instagram", "twitter", "vk", "other"} :
        CASE r = "youtube" -> YoutubeRule(url)
          [] r = "instagram" -> InstagramRule(url)
          [] r = "twitter" -> TwitterRule(url)
          [] r = "vk" -> VkRule(url)
          [] r = "other" -> OtherRule(url)}
VkHandlers == {"handle_vk_video_download", "handle_vk_post", "answer_vk_hint"}

\* C23: a text that satisfies more than one platform rule is dispatched by
\* the rule of highest precedence in the order YouTube, Instagram, Twitter/X
\* with a content-path marker, VK, the remaining platforms.
C23_Precedence ==
    (Called /\ Cardinality(RulesSatisfied(dsp.url)) > 1) =>
        LET rules == RulesSatisfied(dsp.url) IN
        IF "youtube" \in rules THEN dsp.acts = <<"prompt_youtube_quality">>
        ELSE IF "instagram" \in rules THEN dsp.acts = <<"handle_instagram">>
        ELSE IF "twitter" \in rules THEN dsp.acts = <<"handle_twitter_post">>
        ELSE IF "vk" \in rules
        THEN Len(dsp.acts) = 1 /\ dsp.acts[1] \in VkHandlers
        ELSE dsp.acts = <<"handle_video_download">>

\* a VK link: the VK host and no host of a rule tested before the VK rule
VkLink(url) == VkDomain(url) /\ ~YoutubeRule(url) /\ ~InstagramRule(url)

\* C24: every VK link that contains a wall-post marker is handled by
\* handle_vk_post, and no media download is started for it.
C24_WallPostIsPost ==
    (Called /\ VkLink(dsp.url) /\ VkWallMarker(dsp.url)) =>
        dsp.acts = <<"handle_vk_post">>

\* C25: handle_links gives the unsupported answer, and calls no handler,
\* exactly when the text matches none of the patterns of PLATFORMS.
C25_UnsupportedIffNoMatch ==
    Called =>
        (dsp.acts = <<"answer_unsupported">>
            <=> \A i \in 1..Len(PlatformOrder) : ~ReSearch(PlatformOrder[i], dsp.url))

-----------------------------------------------------------------------------
(* Properties of the format selector (FormatSpec) *)

ExactHeight(f, h) == h # 0 => Catalogue[f].height = h

\* the tiers by the video they name: exact height + preferred codec +
\* preferred container, exact height + preferred container, exact height +
\* any codec, single file of exact height, absolute best
TierVideos(k, avail, h) ==
    {f \in avail :
        /\ Catalogue[f].video
        /\ k <= 4 => ExactHeight(f, h)
        /\ k = 1 => Catalogue[f].vcodec = "avc1"
        /\ k <= 2 => Catalogue[f].ext = "mp4"
        /\ k >= 4 => Catalogue[f].audio}
FirstTier(avail, h) ==
    CHOOSE k \in 1..5 :
        /\ TierVideos(k, avail, h) # {}
        /\ \A j \in 1..(k - 1) : TierVideos(j, avail, h) = {}

\* C27: the chosen format belongs to the first tier that has a matching
\* encoding; a later tier is never chosen while an earlier one has a match.
C27_FirstMatchingTier ==
    (fsel.done /\ \E k \in 1..5 : TierVideos(k, formats, fsel.height) # {}) =>
        /\ fsel.chosen # <<>>
        /\ fsel.chosen[1] \in TierVideos(FirstTier(formats, fsel.height),
                                         formats, fsel.height)

\* the audio-only streams tier k takes its audio from
TierAudios(k, avail) ==
    {f \in avail :
        /\ Catalogue[f].audio /\ ~Catalogue[f].video
        /\ k = 1 => Catalogue[f].acodec = "mp4a"}
\* the formats tier k can deliver: a video with an audio-only stream in the
\* tiers 1 to 3, a single file in the tiers 4 and 5
TierFormats(k, avail, h) ==
    IF k <= 3
    THEN {<<v, a>> : v \in TierVideos(k, avail, h), a \in TierAudios(k, avail)}
    ELSE {<<c>> : c \in TierVideos(k, avail, h)}
FirstFullTier(avail, h) ==
    CHOOSE k \in 1..5 :
        /\ TierFormats(k, avail, h) # {}
        /\ \A j \in 1..(k - 1) : TierFormats(j, avail, h) = {}

\* C27 (amended): a tier has a match only if its video and, in the tiers 1
\* to 3, an audio-only stream (with the mp4a codec in tier 1) are offered;
\* the chosen format belongs to the first tier that has such a match, and
\* nothing is chosen if no tier has one.
C27_FirstFullTier ==
    fsel.done =>
        IF \E k \in 1..5 : TierFormats(k, formats, fsel.height) # {}
        THEN fsel.chosen \in TierFormats(FirstFullTier(formats, fsel.height),
                                         formats, fsel.height)
        ELSE fsel.chosen = <<>>

\* an avc1 video of the requested height in an mp4 container is offered,
\* but no mp4a audio, and the selection falls to the second tier
C27_Witness ==
    /\ fsel.done /\ fsel.height = 720
    /\ "v_avc" \in formats /\ "v_av1" \in formats
    /\ "a_aac" \notin formats
    /\ fsel.chosen = <<"v_av1", "a_opus">>


\* C28: for a YouTube link with no target height and audio-only not
\* requested, download_video is configured with the video format chain
\* without height constraint and returns the path of a video file (the
\* video offers a single file, so that the chain has a match); the
\* audio-extraction options are used only when audio-only is requested.
C28_YoutubeDefaultDownload ==
    dl.called =>
        /\ (dl.youtube /\ dl.height = 0 /\ ~dl.audio_only /\ "c_720" \in formats) =>
                /\ dl.opts.format = "video_chain"
                /\ fsel.done /\ fsel.height = 0
                /\ dl.ret = "video_file"
        /\ dl.opts.extract_audio => dl.audio_only


-----------------------------------------------------------------------------
(* Properties of the orchestrator download_content (ContentSpec) *)

ContentReturned == dc.pc = "done" /\ dc.ret.kind = "result"

\* C29: an artifact that download_content returns is never larger than the
\* delivery size ceiling: a downloaded or merged video above it has gone
\* through the re-encode pass before it is returned.  (download_content has
\* no call of _process_video_file, so that a returned artifact of a size
\* above the ceiling is one the pass was not applied to.)
C29_OversizeReencoded ==
    ContentReturned =>
        \A i \in 1..Len(dc.ret.media) : dc.ret.media[i] \notin Oversize

\* C30: no failure leaves download_content or the merge as an exception:
\* after a failure download_content returns a structured result, with empty
\* media when the disk check or the download failed, and the merge returns
\* a failure value and does not raise.
C30_NoFailureEscapes ==
    /\ dc.pc = "done" => dc.ret.kind = "result"
    /\ (dc.pc = "done" /\ dc.faults \cap {"disk", "strategy"} # {}) =>
            dc.ret.media = <<>>
    /\ dc.merge_ret \in {"not_called", "output", "None"}


\* C34: download_content calls the merge only for more than one media
\* item; after a merge that succeeded every input file is deleted and the
\* media list is the single merged file; after a merge that failed no input
\* file is deleted and the media list is the list of the inputs.
C34_MergeFrame ==
    /\ dc.merge_ret # "not_called" => Len(dc.media) > 1
    /\ (dc.pc = "done" /\ dc.merge_ret = "output") =>
            /\ dc.on_disk = {}
            /\ Len(dc.ret.media) = 1
            /\ dc.ret.media[1] \in {"merged", "big_merged"}
    /\ (dc.pc = "done" /\ dc.merge_ret \in {"None", "OSError"}) =>
            /\ dc.on_disk = 1..Len(dc.media)
            /\ dc.ret.media = dc.media


-----------------------------------------------------------------------------
(* Further properties of the merge (MergeSpec) *)

\* C35: the merge returns the output path only if the concatenation exited
\* with code 0 and left a non-empty output file; in every other case it
\* returns failure and no file is left at the output path.
C35_OutputOnlyAfterCleanRun ==
    MergeReturned =>
        /\ merged = "output" => (concat_outcome = "ok" /\ output_file)
        /\ merged # "output" => (merged = "failed" /\ ~output_file)


-----------------------------------------------------------------------------
(* Further properties of the request store (Spec) *)

Malformed == {"badparts", "badchoice"}

\* C37: a redemption request that is rejected as malformed (wrong number of
\* fields, quality choice that is not a number) does not consume the token:
\* the step that receives it leaves the store as it was, so that the owner
\* can still redeem the token.
C37_MalformedKeepsStore ==
    [][\A h \in Handlers, token \in Tokens, uid \in Requesters, form \in Malformed :
          (HandleYoutubeChoice(h, token, uid, form)
              \/ HandleChosenInlineResult(h, token, uid, form))
          => requests' = requests]_vars


-----------------------------------------------------------------------------
(* Further properties of the download directory (DiskSpec) *)

\* C38: the path a job returns, the one found by the directory scan
\* included, is a path that this job has created.
C38_ReturnsOwnArtifact ==
    \A j \in DJobs :
        (djobs[j].pc = "done" /\ djobs[j].outcome = "success") =>
            djobs[j].ret \in djobs[j].wrote


-----------------------------------------------------------------------------
(* Properties of the scheduler (SchedSpec, SchedLive) *)

\* C31: while a job is inside a blocking capability call the loop is free:
\* every other job that is ready can take its next step.
C31_LoopNotStalled ==
    \A j, k \in SJobs :
        (j # k /\ sjobs[j].pc = "in_call" /\ sjobs[k].pc = "ready") =>
            holder = None

\* C32: every job that was started reaches a terminal state, also when a
\* capability never responds.
C32_EveryJobEnds ==
    \A j \in SJobs : (sjobs[j].pc # "idle") ~> (sjobs[j].pc = "terminal")


-----------------------------------------------------------------------------
(* Further properties of the dispatcher (DispatchSpec) *)

\* C39: for the same text the inline path starts the download function that
\* the handler chosen by handle_links starts.
C39_SameStrategy ==
    (Called /\ inl.called /\ dsp.url = inl.url) =>
        inl.download = ChatDownload(dsp.acts[1])


-----------------------------------------------------------------------------
(* Properties of the quality choices (QualitySpec) *)

Offered == {offer.available[i] : i \in DOMAIN offer.available}

\* C36: the offered choices are never empty; they are the encodings of
\* height 360 or more if there are any, all encodings otherwise, and the
\* default ladder when the query failed or found nothing; the offered list
\* has no duplicates and its heights ascend.
C36_OfferedQualities ==
    offer.done =>
        /\ offer.choices # <<>>
        /\ IF encodings.failed \/ encodings.pairs = {}
           THEN Offered = DefaultLadder
           ELSE IF \E r \in encodings.pairs : r[2] >= 360
           THEN Offered = {r \in encodings.pairs : r[2] >= 360}
           ELSE Offered = encodings.pairs
        /\ \A i, k \in DOMAIN offer.choices :
               i < k => /\ offer.choices[i] # offer.choices[k]
                        /\ offer.available[i][2] <= offer.available[k][2]

-----------------------------------------------------------------------------
(* Further properties of download_content and its handler (ContentSpec) *)

\* C33: when the request handler returns, on success and on every failure
\* path, none of the artifact files of the request (media files and caption
\* text file) is left on disk.
C33_NothingLeft ==
    dc.pc = "handled" => dc.left = {}

====
